---- MODULE Spec2Model ----
(***************************************************************************)
(* Client-side license validation of code-checkout-vscode.                 *)
(*                                                                         *)
(* Two engines live in the repository and a host extension is wired to one *)
(* of them:                                                                *)
(*   "validator" : src/private/license-validator.ts, driven by the gate    *)
(*                 of src/public/tag.ts (getLicense, tagCommand) and the   *)
(*                 commands of src/public/activate.ts;                     *)
(*   "manager"   : the LicenseManager class of                             *)
(*                 src/private/license-manager.ts.                         *)
(*                                                                         *)
(* src/public/tag.ts holds several successive versions of the gate; the    *)
(* model follows the last one (getLicense at line 283, tagCommand at 404). *)
(*                                                                         *)
(* Time is counted in days (the code counts milliseconds and every period  *)
(* it uses is a whole number of days).  An optional value (string |        *)
(* undefined, T | null) is a sequence of length 0 or 1.                    *)
(*                                                                         *)
(* Granularity: the host runs one foreground command at a time ("fg") and  *)
(* at most one background validation ("bg") is in flight; the four writes  *)
(* of storeLicenseData and of clearLicenseData are one step; LicenseManager*)
(* serves one validateLicense call at a time.                              *)
(***************************************************************************)
EXTENDS Integers, FiniteSets, Sequences, TLC

\* ------------------------------------------------------------------ bounds
MaxTime == 5

\* ------------------------------------------------------- program constants
gracePeriodDays == 3
DEFAULT_GRACE_PERIOD_MS == 7

\* ------------------------------------------------------------- value sets
Keys == {"K1", "K2"}
NoKey == ""
None == << >>
Some(v) == << v >>
ExpiryChoices == {2, MaxTime + 1}
MaxCalls == 3
MaxCommands == 2
ExtensionCommands == {"cmdA", "cmdB"}
CheckoutCommands == << "activateLicenseCommand", "revokeLicenseCommand",
                       "purchaseLicenseCommand" >>
CallIds == 1 .. MaxCalls
Values == {"v1", "v2"}
NoCall == [op |-> "none", value |-> "", pc |-> "new", result |-> "none"]
VProcs == {"fg", "bg"}

LProcs == {"a"}

VARIABLES
  engine,            \* which engine the host extension is wired to
  session,           \* vscode.env.sessionId of the running host
  now,               \* the clock (Date.now()), in days
  \* --- license-validator.ts: the stored license
  cfgKey,            \* configuration value "license-key" ("" when not set)
  secExpires,        \* secret "license-expires"
  secLastValidated,  \* secret "license-last-validated"
  secMachineId,      \* secret "license-machine-id"
  \* --- license-validator.ts: validateLicense invocations in flight
  vpc, vkey, vresp, vres,
  \* --- tag.ts / activate.ts: the foreground command being executed
  fpc, gKey, gData, gVal, gOutcome,
  \* --- license-manager.ts: the storage item and the invocations in flight
  lmStore, lpc, lkey, lopts, lresp, lres,
  \* --- history of the run, per validateLicense invocation
  vold,              \* the server has answered another request since this one
  vsuperseded,       \* the answer to a later request has been stored already
  vstale,            \* a revocation cleared the store while the request was out
  \* --- node-storage.ts: the storage directory, the file of one key, and
  \* --- the getItem / setItem / removeItem calls made on that key
  fsDir, fsFile, calls,
  \* --- BrowserStorage: the localStorage entry of one key, the last read
  lsItem, lsRead,
  \* --- history of the storage calls
  sequential,        \* every call was made after the previous one had ended
  burst,             \* every call was made before any call had ended
  expected,          \* the value of the last setItem, absent after a removeItem
  lsExpected,        \* the same for the BrowserStorage calls
  \* --- activate.ts: the function returned by injectCheckoutCommands
  apc,               \* its position
  secTestMode,       \* secret "test-mode"
  registerCommand,   \* what vscode.commands.registerCommand is
  registerUriHandler, \* what vscode.window.registerUriHandler is
  originalRegisterCommand,    \* the local constants holding the functions
  originalRegisterUriHandler, \* found at substitution
  handlerRegistered, \* the local flag
  commands,          \* the commands registered with the host, in order
  uriHandlers,       \* the URI handlers registered with the host, in order
  \* --- scripts/build.ts: build() and the project directory it runs in
  bpc,               \* its position
  srcDir,            \* the files of options.sourceDir (None: no directory)
  backupDir,         \* the files of `${options.sourceDir}_backup`
  buildDir,          \* the files of options.buildDir
  vscodeignore,      \* the content of .vscodeignore
  packageJsonMain,   \* the main field of package.json
  originalBackupFiles,    \* the locals of build()
  restoreVSCodeIgnore,
  restorePackageJsonMain,
  buildError,        \* the error that the catch block of build() caught
  \* --- history of the build: the project when build() was called
  srcAtStart, ignoreAtStart, backupAtStart

fsVars == << fsDir, fsFile, calls, lsItem, lsRead, sequential, burst,
            expected, lsExpected >>
actVars == << apc, secTestMode, registerCommand, registerUriHandler,
             originalRegisterCommand, originalRegisterUriHandler,
             handlerRegistered, commands, uriHandlers >>
buildVars == << bpc, srcDir, backupDir, buildDir, vscodeignore,
               packageJsonMain, originalBackupFiles, restoreVSCodeIgnore,
               restorePackageJsonMain, buildError, srcAtStart,
               ignoreAtStart, backupAtStart >>
extVars == << actVars, buildVars >>
hostVars == << engine, session, fsVars, extVars >>
storeVars == << cfgKey, secExpires, secLastValidated, secMachineId >>
vprocVars == << vpc, vkey, vresp, vres >>
gateVars == << fpc, gKey, gData, gVal, gOutcome >>
histVars == << vold, vsuperseded, vstale >>
managerVars == << lmStore, lpc, lkey, lopts, lresp, lres >>
vars == << hostVars, now, storeVars, vprocVars, gateVars, managerVars, histVars >>

\* ----------------------------------------------------- machine identifier
\* The values of the machine that generateMachineId reads from os and from
\* vscode.env.machineId; they are the same in every session of the host.
Host == [hostname |-> "host", platform |-> "linux", arch |-> "x64",
         cpu |-> "cpu0", totalmem |-> "16G", machineId |-> "vsc1"]
Sessions == {"s1", "s2"}

\* The digest of a text; two texts have the same digest when they are equal.
sha256(text) == << "sha256", text >>

\* generateMachineId(): every value is fed to the hash in turn, that is, the
\* digest is taken of their concatenation.
generateMachineId(host, sessionId) ==
  sha256(host.hostname \o host.platform \o host.arch \o host.cpu
           \o host.totalmem \o host.machineId \o sessionId)

\* The machine id that validateLicense computes in the running session.
MachineId == generateMachineId(Host, session)

\* ------------------------------------------------------------ responses
NoResp == [kind |-> "none", status |-> 0, isValid |-> "undefined",
           isRevoked |-> FALSE, expires |-> None, grace |-> None]
NetworkError == [NoResp EXCEPT !.kind = "neterr"]
HttpStatus(s) == [NoResp EXCEPT !.kind = "http", !.status = s]
BadJson == [NoResp EXCEPT !.kind = "badjson", !.status = 200]
JsonBody(v, r, e, g) ==
  [kind |-> "json", status |-> 200, isValid |-> v, isRevoked |-> r,
   expires |-> e, grace |-> g]

\* What the endpoint of license-validator.ts can answer.
ValidatorResponses ==
  {NetworkError, BadJson}
  \cup {HttpStatus(s) : s \in {401, 403, 500}}
  \cup {JsonBody("true", r, Some(e), None) : r \in BOOLEAN, e \in ExpiryChoices}
  \cup {JsonBody("false", r, None, None) : r \in BOOLEAN}
  \cup {JsonBody("undefined", FALSE, None, None)}

\* ------------------------------------------ license-validator.ts, pure parts
NoResult == [isValid |-> "undefined", message |-> "none", offline |-> FALSE]
Result(v, m, o) == [isValid |-> v, message |-> m, offline |-> o]
\* The promise of validateLicense rejects ("Failed to validate license: ...").
Rejected == [NoResult EXCEPT !.message = "rejected"]

getLicenseData(key, expires, lastValidated, machineId) ==
  IF key = NoKey \/ expires = None \/ lastValidated = None \/ machineId = None
  THEN None
  ELSE Some([key |-> key, expiresOn |-> expires[1],
             lastValidated |-> lastValidated[1], machineId |-> machineId[1]])

StoredLicense == getLicenseData(cfgKey, secExpires, secLastValidated, secMachineId)

\* An isLicenseExpired whose comparison is the wrong way round.
isLicenseExpiredReversed(data, t) ==
  IF data = None THEN TRUE ELSE data[1].expiresOn >= t

isLicenseExpired(data, t) ==
  IF data = None THEN TRUE ELSE data[1].expiresOn <= t

needsOnlineValidation(data, t, graceDays) ==
  IF data = None THEN TRUE ELSE t - data[1].lastValidated > graceDays

\* A catch branch that leaves out the grace-period test.
OfflineValidationNoGrace(data, licenseKey, t, graceDays) ==
  IF data = None THEN Result("false", "first-time", FALSE)
  ELSE IF data[1].key # licenseKey THEN Result("false", "key-mismatch", FALSE)
  ELSE IF data[1].expiresOn <= t THEN Result("false", "expired", FALSE)
  ELSE Result("true", "offline-grace", TRUE)

\* A catch branch that does not compare the presented key with the stored one.
OfflineValidationAnyKey(data, licenseKey, t, graceDays) ==
  IF data = None THEN Result("false", "first-time", FALSE)
  ELSE IF data[1].expiresOn <= t THEN Result("false", "expired", FALSE)
  ELSE IF t - data[1].lastValidated > graceDays
       THEN Result("false", "grace-expired", FALSE)
  ELSE Result("true", "offline-grace", TRUE)

\* The catch (networkError) branch of validateLicense.
OfflineValidation(data, licenseKey, t, graceDays) ==
  IF data = None THEN Result("false", "first-time", FALSE)
  ELSE IF data[1].key # licenseKey THEN Result("false", "key-mismatch", FALSE)
  ELSE IF data[1].expiresOn <= t THEN Result("false", "expired", FALSE)
  ELSE IF t - data[1].lastValidated > graceDays
       THEN Result("false", "grace-expired", FALSE)
  ELSE Result("true", "offline-grace", TRUE)

\* --------------------------------------------- license-manager.ts, pure parts
NoOptions == [allowOffline |-> FALSE, gracePeriodMs |-> None]
OptionChoices == [allowOffline : BOOLEAN, gracePeriodMs : {None, Some(4)}]
GraceChoices == {None, Some(0), Some(2)}

\* What the endpoint given to LicenseManager can answer.
ManagerResponses ==
  {NetworkError, BadJson}
  \cup {HttpStatus(s) : s \in {401, 403, 500}}
  \cup {JsonBody("true", r, Some(e), g) :
          r \in BOOLEAN, e \in ExpiryChoices, g \in GraceChoices}
  \cup {JsonBody("false", r, None, None) : r \in BOOLEAN}
  \cup {JsonBody("undefined", FALSE, None, None)}

\* LicenseValidationResult, or the rejection of the promise.
NoOutcome == [kind |-> "none", isValid |-> "undefined", status |-> "none",
              wasOffline |-> FALSE]
Outcome(v, s, o) == [kind |-> "result", isValid |-> v, status |-> s,
                     wasOffline |-> o]
Thrown == [NoOutcome EXCEPT !.kind = "thrown"]

\* validateWithServer: the parsed body, or a throw when fetch rejects, the
\* status is not ok or the body does not parse.
validateWithServer(r) == IF r.kind = "json" THEN "response" ELSE "throw"

\* validateOffline(storedData, options).  A record stored without expiresAt
\* gives an invalid Date, and now > invalid is false.
validateOffline(storedData, options, t) ==
  LET gracePeriodMs == IF options.gracePeriodMs # None
                       THEN options.gracePeriodMs[1]
                       ELSE storedData.gracePeriodMs
  IN IF storedData.expiresAt # None /\ t > storedData.expiresAt[1]
     THEN Outcome("false", "expired", TRUE)
     ELSE IF t - storedData.lastValidated <= gracePeriodMs
     THEN Outcome("true", "grace", TRUE)
     ELSE Outcome("false", "expired", TRUE)

\* The LocalLicenseData that validateLicense builds from a response.
LocalLicenseData(licenseKey, r, t) ==
  [key |-> licenseKey,
   lastValidated |-> t,
   expiresAt |-> r.expires,
   status |-> IF r.isValid = "true" THEN "active" ELSE "expired",
   gracePeriodMs |-> IF r.grace = None \/ r.grace[1] = 0
                     THEN DEFAULT_GRACE_PERIOD_MS ELSE r.grace[1]]

\* A validateLicense that stores the record without looking at isRevoked.
StoreAfterResponseKeepsRevoked(licenseKey, r, t) ==
  Some(LocalLicenseData(licenseKey, r, t))

\* validateLicense, the storage after a server response: removeItem for a
\* revoked license, storeLicenseData otherwise.
StoreAfterResponse(licenseKey, r, t) ==
  IF r.isRevoked THEN None ELSE Some(LocalLicenseData(licenseKey, r, t))

\* validateLicense, the result returned after a server response.
OnlineOutcome(r) ==
  IF r.isRevoked THEN Outcome("false", "revoked", FALSE)
  ELSE Outcome(r.isValid, IF r.isValid = "true" THEN "active" ELSE "expired",
               FALSE)

\* A catch branch that falls back to the stored record whether or not the
\* caller allows it.
OfflineOutcomeUnasked(stored, licenseKey, options, t) ==
  IF stored # None /\ stored[1].key = licenseKey
  THEN validateOffline(stored[1], options, t)
  ELSE Thrown

\* validateLicense, the catch branch: validateOffline when the caller allows
\* it and the stored key is the one asked about, the error rethrown otherwise.
OfflineOutcome(stored, licenseKey, options, t) ==
  IF options.allowOffline /\ stored # None /\ stored[1].key = licenseKey
  THEN validateOffline(stored[1], options, t)
  ELSE Thrown

\* ---------------------------------------------------------------- Init
\* A fresh installation: nothing stored, no command running.
Init ==
  /\ engine \in {"validator", "manager"}
  /\ session = "s1"
  /\ fsDir = FALSE
  /\ fsFile = None
  /\ calls = [i \in CallIds |-> NoCall]
  /\ lsItem = None
  /\ lsRead = "none"
  /\ sequential = TRUE
  /\ burst = TRUE
  /\ expected = None
  /\ lsExpected = None
  /\ apc = "idle"
  /\ secTestMode = None
  /\ registerCommand = "host"
  /\ registerUriHandler = "host"
  /\ originalRegisterCommand = "unset"
  /\ originalRegisterUriHandler = "unset"
  /\ handlerRegistered = FALSE
  /\ commands = << >>
  /\ uriHandlers = << >>
  /\ bpc = "idle"
  /\ srcDir = None
  /\ backupDir = None
  /\ buildDir = None
  /\ vscodeignore = "absent"
  /\ packageJsonMain = "original"
  /\ originalBackupFiles = None
  /\ restoreVSCodeIgnore = None
  /\ restorePackageJsonMain = None
  /\ buildError = "none"
  /\ srcAtStart = None
  /\ ignoreAtStart = "absent"
  /\ backupAtStart = None
  /\ now = 0
  /\ cfgKey = NoKey
  /\ secExpires = None
  /\ secLastValidated = None
  /\ secMachineId = None
  /\ vpc = [p \in VProcs |-> "idle"]
  /\ vkey = [p \in VProcs |-> NoKey]
  /\ vresp = [p \in VProcs |-> NoResp]
  /\ vres = [p \in VProcs |-> NoResult]
  /\ fpc = "idle"
  /\ gKey = NoKey
  /\ gData = None
  /\ gVal = None
  /\ gOutcome = "none"
  /\ lmStore = None
  /\ lpc = [p \in LProcs |-> "idle"]
  /\ lkey = [p \in LProcs |-> NoKey]
  /\ lopts = [p \in LProcs |-> NoOptions]
  /\ lresp = [p \in LProcs |-> NoResp]
  /\ lres = [p \in LProcs |-> NoOutcome]
  /\ vold = [p \in VProcs |-> FALSE]
  /\ vsuperseded = [p \in VProcs |-> FALSE]
  /\ vstale = [p \in VProcs |-> FALSE]

\* ----------------------------------------------------------------- clock
\* A day passes.
Tick ==
  /\ now < MaxTime
  /\ now' = now + 1
  /\ UNCHANGED << hostVars, storeVars, vprocVars, gateVars, managerVars,
                  histVars >>

\* ------------------------------------ license-validator.ts validateLicense
\* Entering validateLicense: the machine id is computed and fetch is issued.
StartValidation(p, k) ==
  /\ vpc' = [vpc EXCEPT ![p] = "fetching"]
  /\ vkey' = [vkey EXCEPT ![p] = k]
  /\ vresp' = [vresp EXCEPT ![p] = NoResp]
  /\ vres' = [vres EXCEPT ![p] = NoResult]
  /\ vold' = [vold EXCEPT ![p] = FALSE]
  /\ vsuperseded' = [vsuperseded EXCEPT ![p] = FALSE]
  /\ vstale' = [vstale EXCEPT ![p] = FALSE]

\* The server answers the request of p (or the request fails): every
\* response that has not been applied yet is from now on older than p's.
VServe(p) ==
  /\ engine = "validator"
  /\ vpc[p] = "fetching"
  /\ vpc' = [vpc EXCEPT ![p] = "responded"]
  /\ vold' = [q \in VProcs |-> q # p /\ (vold[q] \/ vpc[q] = "responded")]
  /\ UNCHANGED << hostVars, now, storeVars, vkey, vresp, vres, gateVars,
                  managerVars, vsuperseded, vstale >>

\* Which way validateLicense goes on a response: "offline" (the catch
\* branch), "clear" (clearLicenseData) or "store" (storeLicenseData).
ResponseRoute(r) ==
  IF r.kind = "neterr" THEN "offline"
  ELSE IF r.status = 403 THEN "clear"
  ELSE IF r.status # 200 THEN "offline"
  ELSE IF r.kind = "badjson" THEN "offline"
  ELSE IF r.isValid = "true" THEN "store"
  ELSE "clear"

\* A storeLicenseData that keeps the expiry already stored, if there is one.
storeLicenseDataKeepsExpiry(key, expiresOn, lastValidated, machineId) ==
  /\ cfgKey' = key
  /\ secExpires' = IF secExpires = None THEN expiresOn ELSE secExpires
  /\ secLastValidated' = Some(lastValidated)
  /\ secMachineId' = Some(machineId)

\* storeLicenseData(context, data).
storeLicenseData(key, expiresOn, lastValidated, machineId) ==
  /\ cfgKey' = key
  /\ secExpires' = expiresOn
  /\ secLastValidated' = Some(lastValidated)
  /\ secMachineId' = Some(machineId)

\* A clearLicenseData that resets the key and leaves the secrets.
clearLicenseKeyOnly ==
  /\ cfgKey' = NoKey
  /\ UNCHANGED << secExpires, secLastValidated, secMachineId >>

\* clearLicenseData(context).
clearLicenseData ==
  /\ cfgKey' = NoKey
  /\ secExpires' = None
  /\ secLastValidated' = None
  /\ secMachineId' = None

\* The validations that a clear of the store by p overtakes: their request
\* is out and their response has not been applied.
Overtaken(p) ==
  [q \in VProcs |-> vstale[q] \/ (q # p /\ vpc[q] \in {"fetching", "responded"})]

\* The older responses, not applied yet, that a store by p supersedes.
Superseded(p) ==
  [q \in VProcs |-> vsuperseded[q] \/ (q # p /\ vold[q] /\ vpc[q] = "responded")]

\* validateLicense(p) ends with this result.  The foreground caller awaits
\* it; the promise of the background validation settles with nobody awaiting.
Settle(p, r, result, superseded, stale) ==
  IF p = "bg"
  THEN /\ vpc' = [vpc EXCEPT ![p] = "idle"]
       /\ vkey' = [vkey EXCEPT ![p] = NoKey]
       /\ vresp' = [vresp EXCEPT ![p] = NoResp]
       /\ vres' = [vres EXCEPT ![p] = NoResult]
       /\ vold' = [vold EXCEPT ![p] = FALSE]
       /\ vsuperseded' = [superseded EXCEPT ![p] = FALSE]
       /\ vstale' = [stale EXCEPT ![p] = FALSE]
  ELSE /\ vpc' = [vpc EXCEPT ![p] = "done"]
       /\ vresp' = [vresp EXCEPT ![p] = r]
       /\ vres' = [vres EXCEPT ![p] = result]
       /\ vsuperseded' = superseded
       /\ vstale' = stale
       /\ UNCHANGED << vkey, vold >>

\* await fetch resumes with response r: the status checks, response.json()
\* and then storeLicenseData and the return of the server's verdict, or
\* clearLicenseData and the return (after a 403: the throw), or the catch
\* branch on the stored license.
VProcess(p, r) ==
  /\ engine = "validator"
  /\ vpc[p] = "responded"
  /\ LET route == ResponseRoute(r) IN
       /\ CASE route = "offline" -> UNCHANGED storeVars
            [] route = "clear" -> clearLicenseData
            [] route = "store" ->
                 storeLicenseData(vkey[p], r.expires, now, MachineId)
       /\ IF r.status = 403
          THEN /\ vpc' = [vpc EXCEPT ![p] = "offline"]
               /\ vresp' = [vresp EXCEPT ![p] = r]
               /\ UNCHANGED << vkey, vres, histVars >>
          ELSE Settle(p, r,
                      IF route = "offline"
                      THEN OfflineValidation(StoredLicense, vkey[p], now,
                                             gracePeriodDays)
                      ELSE Result(r.isValid, "server", FALSE),
                      IF route = "store" THEN Superseded(p) ELSE vsuperseded,
                      IF route = "clear" /\ r.isRevoked
                      THEN Overtaken(p) ELSE vstale)
  /\ UNCHANGED << hostVars, now, gateVars, managerVars >>

\* The catch (networkError) branch that the throw after the 403 clear enters.
VOffline(p) ==
  /\ vpc[p] = "offline"
  /\ Settle(p, vresp[p],
            OfflineValidation(StoredLicense, vkey[p], now, gracePeriodDays),
            vsuperseded, vstale)
  /\ UNCHANGED << hostVars, now, storeVars, gateVars, managerVars >>

\* The awaiting caller takes the result of the foreground validation.
ReleaseValidation(p) ==
  /\ vpc' = [vpc EXCEPT ![p] = "idle"]
  /\ vkey' = [vkey EXCEPT ![p] = NoKey]
  /\ vresp' = [vresp EXCEPT ![p] = NoResp]
  /\ vres' = [vres EXCEPT ![p] = NoResult]
  /\ vold' = [vold EXCEPT ![p] = FALSE]
  /\ vsuperseded' = [vsuperseded EXCEPT ![p] = FALSE]
  /\ vstale' = [vstale EXCEPT ![p] = FALSE]

\* ------------------------------------------- tag.ts getLicense, tagCommand
\* licenseData as tagCommand sees it (null is None).
LicenseData(v, e, o) ==
  Some([isValid |-> v, isExpired |-> e, isOnlineValidationRequired |-> o])

\* The result of getLicense when its try block throws.
ErrorLicenseData == LicenseData("false", TRUE, TRUE)

\* A tagCommand that wraps free functions in the license gate as well.
tagCommandWrapsAll(type, fn) == "wrapped"

\* tagCommand(context, options, fn): fn itself for type 'free', the wrapper
\* that checks the license for type 'paid'.
tagCommand(type, fn) == IF type = "free" THEN fn ELSE "wrapped"

\* A function given to tagCommand with type 'free' is called: fn runs, and
\* nothing of the license code does.
FreeCall ==
  /\ engine = "validator"
  /\ fpc = "idle"
  /\ tagCommand("free", "fn") = "fn"
  /\ fpc' = "g_done"
  /\ gOutcome' = "free"
  /\ UNCHANGED << hostVars, now, storeVars, vprocVars, gKey, gData, gVal,
                  managerVars, histVars >>

\* The function returned by tagCommand for type 'paid' is called.
GateCall ==
  /\ engine = "validator"
  /\ fpc = "idle"
  /\ tagCommand("paid", "fn") = "wrapped"
  /\ fpc' = "g_key"
  /\ UNCHANGED << hostVars, now, storeVars, vprocVars, gKey, gData, gVal,
                  gOutcome, managerVars, histVars >>

\* getLicense: getStoredLicense, and the return of null without a key.
GetStoredKey ==
  /\ fpc = "g_key"
  /\ gKey' = cfgKey
  /\ fpc' = IF cfgKey = NoKey THEN "t_check" ELSE "g_needs"
  /\ UNCHANGED << hostVars, now, storeVars, vprocVars, gData, gVal, gOutcome,
                  managerVars, histVars >>

\* getLicense: the first needsOnlineValidation (validateOnline is false) and,
\* when it holds, the validateLicense that getLicense awaits.
GetNeedsOnline ==
  /\ fpc = "g_needs"
  /\ IF needsOnlineValidation(StoredLicense, now, gracePeriodDays)
     THEN /\ StartValidation("fg", gKey)
          /\ fpc' = "g_wait"
     ELSE /\ fpc' = "g_expired"
          /\ UNCHANGED << vprocVars, histVars >>
  /\ UNCHANGED << hostVars, now, storeVars, gKey, gData, gVal, gOutcome,
                  managerVars >>

\* getLicense: isLicenseExpired and, when it holds, the awaited
\* validateLicense.
GetExpired ==
  /\ fpc = "g_expired"
  /\ IF isLicenseExpired(StoredLicense, now)
     THEN /\ StartValidation("fg", gKey)
          /\ fpc' = "g_wait"
     ELSE /\ fpc' = "g_final"
          /\ UNCHANGED << vprocVars, histVars >>
  /\ UNCHANGED << hostVars, now, storeVars, gKey, gData, gVal, gOutcome,
                  managerVars >>

\* getLicense: the second needsOnlineValidation, the background
\* validateLicense that is not awaited, and the cached result.
GetCached ==
  /\ fpc = "g_final"
  /\ vpc["bg"] = "idle"
  /\ StartValidation("bg", gKey)
  /\ gData' = LicenseData("true", FALSE,
                 needsOnlineValidation(StoredLicense, now, gracePeriodDays))
  /\ fpc' = "t_check"
  /\ UNCHANGED << hostVars, now, storeVars, gKey, gVal, gOutcome, managerVars >>

\* getLicense: the awaited validateLicense returns and its result is spread
\* into the license data, or it rejects and the catch gives the error result.
GetValidated ==
  /\ fpc = "g_wait"
  /\ vpc["fg"] = "done"
  /\ gVal' = Some(vres["fg"])
  /\ gData' = IF vres["fg"] = Rejected THEN ErrorLicenseData
              ELSE LicenseData(vres["fg"].isValid, FALSE, FALSE)
  /\ ReleaseValidation("fg")
  /\ fpc' = "t_check"
  /\ UNCHANGED << hostVars, now, storeVars, gKey, gOutcome, managerVars >>

\* What tagCommand does with the license data: "deny" (prompt, undefined),
\* "validate" (await validateLicense) or "invoke" (call fn).
GateDecision(data) ==
  IF data = None THEN "deny"
  ELSE IF data[1].isValid # "true" \/ data[1].isExpired THEN "deny"
  ELSE IF data[1].isOnlineValidationRequired THEN "validate"
  ELSE "invoke"

\* tagCommand after getLicense returned.
GateCheck ==
  /\ fpc = "t_check"
  /\ LET d == GateDecision(gData) IN
       IF d = "validate"
       THEN /\ StartValidation("fg", gKey)
            /\ fpc' = "t_wait"
            /\ UNCHANGED gOutcome
       ELSE /\ fpc' = "g_done"
            /\ gOutcome' = IF d = "invoke" THEN "invoked" ELSE "denied"
            /\ UNCHANGED << vprocVars, histVars >>
  /\ UNCHANGED << hostVars, now, storeVars, gKey, gData, gVal, managerVars >>

\* A tagCommand that does not look at the result of the validation it awaited.
GateVerdictUnchecked(result) == "invoked"

\* A tagCommand without its catch: a rejected validation rejects the call.
GateVerdictUncaught(result) ==
  IF result = Rejected THEN "rejected"
  ELSE IF result.isValid = "true" THEN "invoked" ELSE "denied"

\* The verdict of tagCommand on the validateLicense it awaited itself: fn is
\* called, or the prompt is shown and undefined returned, or (the validation
\* rejected) the catch shows the error and returns undefined.
GateVerdict(result) ==
  IF result = Rejected THEN "error"
  ELSE IF result.isValid = "true" THEN "invoked" ELSE "denied"

\* tagCommand: the validateLicense it awaited itself returns.
GateValidated ==
  /\ fpc = "t_wait"
  /\ vpc["fg"] = "done"
  /\ gVal' = Some(vres["fg"])
  /\ gOutcome' = GateVerdict(vres["fg"])
  /\ ReleaseValidation("fg")
  /\ fpc' = "g_done"
  /\ UNCHANGED << hostVars, now, storeVars, gKey, gData, managerVars >>

\* The wrapped call returns to the host.
GateReturn ==
  /\ fpc = "g_done"
  /\ fpc' = "idle"
  /\ gKey' = NoKey
  /\ gData' = None
  /\ gVal' = None
  /\ gOutcome' = "none"
  /\ UNCHANGED << hostVars, now, storeVars, vprocVars, managerVars, histVars >>

\* ------------------------------------------------- activate.ts commands
\* activateLicenseCommand / the "/activate" URI: validateLicense(context, k).
ActivateCommand(k) ==
  /\ engine = "validator"
  /\ fpc = "idle"
  /\ StartValidation("fg", k)
  /\ fpc' = "a_wait"
  /\ UNCHANGED << hostVars, now, storeVars, gKey, gData, gVal, gOutcome,
                  managerVars >>

\* handleLicenseValidationResult: the command ends.
ActivateReturn ==
  /\ fpc = "a_wait"
  /\ vpc["fg"] = "done"
  /\ ReleaseValidation("fg")
  /\ fpc' = "idle"
  /\ UNCHANGED << hostVars, now, storeVars, gKey, gData, gVal, gOutcome,
                  managerVars >>

\* revokeLicense, confirmed by the user.
RevokeCommand ==
  /\ engine = "validator"
  /\ fpc = "idle"
  /\ clearLicenseData
  /\ vstale' = Overtaken("user")
  /\ UNCHANGED << hostVars, now, vprocVars, gateVars, managerVars, vold,
                  vsuperseded >>

\* ---------------------------------- license-manager.ts LicenseManager
\* validateLicense(licenseKey, options) is called: fetch is issued.
ManagerValidate(p, k, o) ==
  /\ engine = "manager"
  /\ lpc[p] = "idle"
  /\ lpc' = [lpc EXCEPT ![p] = "fetching"]
  /\ lkey' = [lkey EXCEPT ![p] = k]
  /\ lopts' = [lopts EXCEPT ![p] = o]
  /\ UNCHANGED << hostVars, now, storeVars, vprocVars, gateVars, lmStore,
                  lresp, lres, histVars >>

\* The server answers the request of p (or the request fails).
ManagerServe(p) ==
  /\ lpc[p] = "fetching"
  /\ lpc' = [lpc EXCEPT ![p] = "responded"]
  /\ UNCHANGED << hostVars, now, storeVars, vprocVars, gateVars, lmStore,
                  lkey, lopts, lresp, lres, histVars >>

\* validateLicense after validateWithServer(licenseKey) settled with r.
ManagerProcess(p, r) ==
  /\ lpc[p] = "responded"
  /\ lresp' = [lresp EXCEPT ![p] = r]
  /\ lpc' = [lpc EXCEPT ![p] = "done"]
  /\ IF validateWithServer(r) = "response"
     THEN /\ lmStore' = StoreAfterResponse(lkey[p], r, now)
          /\ lres' = [lres EXCEPT ![p] = OnlineOutcome(r)]
     ELSE /\ lres' = [lres EXCEPT ![p] =
                        OfflineOutcome(lmStore, lkey[p], lopts[p], now)]
          /\ UNCHANGED lmStore
  /\ UNCHANGED << hostVars, now, storeVars, vprocVars, gateVars, lkey, lopts,
                  histVars >>

\* The caller takes the result (or catches the error).
ManagerReturn(p) ==
  /\ lpc[p] = "done"
  /\ lpc' = [lpc EXCEPT ![p] = "idle"]
  /\ lkey' = [lkey EXCEPT ![p] = NoKey]
  /\ lopts' = [lopts EXCEPT ![p] = NoOptions]
  /\ lresp' = [lresp EXCEPT ![p] = NoResp]
  /\ lres' = [lres EXCEPT ![p] = NoOutcome]
  /\ UNCHANGED << hostVars, now, storeVars, vprocVars, gateVars, lmStore,
                  histVars >>

\* clearLicense().
ManagerClear ==
  /\ engine = "manager"
  /\ lmStore' = None
  /\ UNCHANGED << hostVars, now, storeVars, vprocVars, gateVars, lpc, lkey,
                  lopts, lresp, lres, histVars >>

\* ------------------------------------------------------------------ Next
ValidatorStep ==
  \/ \E p \in VProcs : VServe(p)
  \/ \E p \in VProcs : \E r \in ValidatorResponses : VProcess(p, r)
  \/ \E p \in VProcs : VOffline(p)

GateStep ==
  \/ FreeCall
  \/ GateCall
  \/ GetStoredKey
  \/ GetNeedsOnline
  \/ GetExpired
  \/ GetCached
  \/ GetValidated
  \/ GateCheck
  \/ GateValidated
  \/ GateReturn

CommandStep ==
  \/ \E k \in Keys : ActivateCommand(k)
  \/ ActivateReturn
  \/ RevokeCommand

ManagerStep ==
  \/ \E p \in LProcs : \E k \in Keys : \E o \in OptionChoices :
       ManagerValidate(p, k, o)
  \/ \E p \in LProcs : ManagerServe(p)
  \/ \E p \in LProcs : \E r \in ManagerResponses : ManagerProcess(p, r)
  \/ \E p \in LProcs : ManagerReturn(p)
  \/ ManagerClear

Next ==
  \/ Tick
  \/ ValidatorStep
  \/ GateStep
  \/ CommandStep
  \/ ManagerStep

Spec == Init /\ [][Next]_vars

\* ------------------------------------------------------- storage failures
\* The same program on a storage that can fail: a read or a write of the
\* secret storage (license-validator.ts) or of the Storage given to
\* LicenseManager throws.  A write that fails leaves the store as it was.

\* validateLicense: storeLicenseData or clearLicenseData throws after the
\* response; the catch (networkError) branch takes over.
VWriteFails(p, r) ==
  /\ vpc[p] = "responded"
  /\ ResponseRoute(r) \in {"store", "clear"}
  /\ Settle(p, r,
            OfflineValidation(StoredLicense, vkey[p], now, gracePeriodDays),
            vsuperseded, vstale)
  /\ UNCHANGED << hostVars, now, storeVars, gateVars, managerVars >>

\* validateLicense: the call failed (or was answered 403) and getLicenseData
\* throws in the catch (networkError) branch; the outer catch rethrows and
\* the promise rejects.  The foreground caller awaits it; nothing handles
\* the rejection of the background validation.
VReadFails(p) ==
  /\ vpc[p] \in {"responded", "offline"}
  /\ vpc' = [vpc EXCEPT ![p] = IF p = "bg" THEN "rejected" ELSE "done"]
  /\ vresp' = [vresp EXCEPT ![p] = NoResp]
  /\ vres' = [vres EXCEPT ![p] = Rejected]
  /\ UNCHANGED << hostVars, now, storeVars, vkey, gateVars, managerVars,
                  histVars >>

\* The host reports the unhandled rejection of the background validation.
UnhandledRejection ==
  /\ vpc["bg"] = "rejected"
  /\ ReleaseValidation("bg")
  /\ UNCHANGED << hostVars, now, storeVars, gateVars, managerVars >>

\* getLicense: needsOnlineValidation or isLicenseExpired throws (the secret
\* storage cannot be read); the catch returns the error result.
GetReadFails ==
  /\ fpc \in {"g_needs", "g_expired", "g_final"}
  /\ gData' = ErrorLicenseData
  /\ fpc' = "t_check"
  /\ UNCHANGED << hostVars, now, storeVars, vprocVars, gKey, gVal, gOutcome,
                  managerVars, histVars >>

\* getLicense: getStoredLicense throws, outside the try of getLicense; the
\* catch of tagCommand shows the error and returns undefined.
GetStoredKeyFails ==
  /\ fpc = "g_key"
  /\ fpc' = "g_done"
  /\ gOutcome' = "error"
  /\ UNCHANGED << hostVars, now, storeVars, vprocVars, gKey, gData, gVal,
                  managerVars, histVars >>

\* tagCommand: fn was called and throws (or its promise rejects); the catch
\* shows the error and returns undefined.
OperationThrows ==
  /\ fpc = "g_done"
  /\ gOutcome = "invoked"
  /\ gOutcome' = "threw"
  /\ UNCHANGED << hostVars, now, storeVars, vprocVars, fpc, gKey, gData, gVal,
                  managerVars, histVars >>

\* LicenseManager.validateLicense: removeItem or setItem throws after the
\* response; the catch takes over.
ManagerWriteFails(p, r) ==
  /\ lpc[p] = "responded"
  /\ validateWithServer(r) = "response"
  /\ lresp' = [lresp EXCEPT ![p] = r]
  /\ lpc' = [lpc EXCEPT ![p] = "done"]
  /\ lres' = [lres EXCEPT ![p] =
                OfflineOutcome(lmStore, lkey[p], lopts[p], now)]
  /\ UNCHANGED << hostVars, now, storeVars, vprocVars, gateVars, lmStore, lkey,
                  lopts, histVars >>

\* LicenseManager.validateLicense: getStoredLicenseData throws in the catch
\* (getItem fails, or JSON.parse on corrupt content).
ManagerReadFails(p, r) ==
  /\ lpc[p] = "responded"
  /\ validateWithServer(r) = "throw"
  /\ lopts[p].allowOffline
  /\ lresp' = [lresp EXCEPT ![p] = r]
  /\ lpc' = [lpc EXCEPT ![p] = "done"]
  /\ lres' = [lres EXCEPT ![p] = Thrown]
  /\ UNCHANGED << hostVars, now, storeVars, vprocVars, gateVars, lmStore, lkey,
                  lopts, histVars >>

FaultStep ==
  \/ \E p \in VProcs : \E r \in ValidatorResponses : VWriteFails(p, r)
  \/ \E p \in VProcs : VReadFails(p)
  \/ UnhandledRejection
  \/ GetReadFails
  \/ GetStoredKeyFails
  \/ OperationThrows
  \/ \E p \in LProcs : \E r \in ManagerResponses : ManagerWriteFails(p, r)
  \/ \E p \in LProcs : \E r \in ManagerResponses : ManagerReadFails(p, r)

FaultNext == Next \/ FaultStep

FaultSpec == Init /\ [][FaultNext]_vars

\* ------------------------------------------------------------------ claims
\* The license check of the gated call in progress yielded isValid = true:
\* getLicense returned license data that is valid and not expired, and every
\* validateLicense the call awaited returned isValid = true.
CheckYieldedValid ==
  /\ gData # None
  /\ gData[1].isValid = "true"
  /\ ~gData[1].isExpired
  /\ (gData[1].isOnlineValidationRequired => gVal # None)
  /\ (gVal # None => gVal[1].isValid = "true")

\* C1: the function returned by tagCommand for type 'paid' invokes the
\* wrapped operation only if the license check made for that call yielded
\* isValid = true, and in every other case the operation is not invoked.
C1_InvokedOnlyIfValid ==
  /\ gOutcome = "invoked" => CheckYieldedValid
  /\ gOutcome = "denied" => ~CheckYieldedValid

\* A gated call invoked the operation after the validation that tagCommand
\* itself awaited returned isValid = true.
C1_Witness ==
  /\ fpc = "g_done"
  /\ gOutcome = "invoked"
  /\ gData # None
  /\ gData[1].isOnlineValidationRequired
  /\ gVal # None

\* The license that license-validator.ts has stored is not past its expiry
\* and was validated within the grace period.
RecordFresh ==
  /\ StoredLicense # None
  /\ now <= StoredLicense[1].expiresOn
  /\ now - StoredLicense[1].lastValidated <= gracePeriodDays

\* C2: for every stored record with now <= expiresOn and
\* now - lastValidated <= grace period, getLicense(context, false) does not
\* wait for a validation and returns isValid = true, and tagCommand then
\* starts the wrapped operation without waiting for the network.
C2_FreshRecordServedLocally ==
  [][/\ (fpc \in {"g_needs", "g_expired", "g_final"} /\ RecordFresh)
          => /\ fpc' # "g_wait"
             /\ (fpc' = "t_check" => gData' = LicenseData("true", FALSE, FALSE))
     /\ (fpc = "t_check" /\ gData = LicenseData("true", FALSE, FALSE)
           /\ fpc' # fpc)
          => (fpc' = "g_done" /\ gOutcome' = "invoked")]_vars

\* The part of C2 for records strictly before their expiry.
C2_BeforeExpiryServedLocally ==
  [][(fpc \in {"g_needs", "g_expired", "g_final"} /\ RecordFresh
        /\ now < StoredLicense[1].expiresOn)
          => /\ fpc' # "g_wait"
             /\ (fpc' = "t_check" => gData' = LicenseData("true", FALSE, FALSE))]_vars

\* The response r is a failure of the network call: fetch rejected, the
\* status is not ok, or the body does not parse.
CallFailed(r) == r.kind \in {"neterr", "http", "badjson"}

\* The stored license of license-validator.ts was last validated longer ago
\* than the grace period.
RecordStale ==
  /\ StoredLicense # None
  /\ now - StoredLicense[1].lastValidated > gracePeriodDays

\* The grace period that LicenseManager applies for the caller's options.
ManagerGrace(options) ==
  IF options.gracePeriodMs # None THEN options.gracePeriodMs[1]
  ELSE lmStore[1].gracePeriodMs

RecordExpired ==
  /\ StoredLicense # None
  /\ now > StoredLicense[1].expiresOn

\* C4: a stored record with now > expiresOn is never accepted offline: the
\* gate always starts an online validation for it, and when the server
\* cannot be reached the result is isValid = false (expired), also when the
\* record is still inside its grace period.
C4_ExpiredRecordNeverOffline ==
  [][/\ (fpc = "g_expired" /\ RecordExpired /\ fpc' # fpc)
          => fpc' = "g_wait"
     /\ \A p \in VProcs :
          (vpc[p] = "responded" /\ vpc'[p] = "done" /\ CallFailed(vresp'[p])
             /\ RecordExpired)
            => /\ vres'[p].isValid = "false"
               /\ (StoredLicense[1].key = vkey[p]
                     => vres'[p].message = "expired")
     /\ \A p \in LProcs :
          (lpc[p] = "responded" /\ lpc'[p] = "done" /\ CallFailed(lresp'[p])
             /\ lmStore # None /\ lmStore[1].expiresAt # None
             /\ now > lmStore[1].expiresAt[1])
            => /\ lres'[p].isValid # "true"
               /\ (lopts[p].allowOffline /\ lmStore[1].key = lkey[p]
                     => lres'[p] = Outcome("false", "expired", TRUE))]_vars

\* The gate waited for a validation of a record that is expired but inside
\* its grace period, the server was not reached, and the answer is: expired.
C4_Witness ==
  /\ fpc = "g_wait"
  /\ vpc["fg"] = "done"
  /\ vresp["fg"] = NetworkError
  /\ RecordExpired
  /\ now - StoredLicense[1].lastValidated <= gracePeriodDays
  /\ vres["fg"] = Result("false", "expired", FALSE)

\* C5: when LicenseManager.validateLicense receives a server response with
\* isRevoked = true it returns isValid = false with status 'revoked' and the
\* stored record is removed; the record stays absent while the result is
\* held, and a check on the empty store behaves as on a never-activated
\* installation (a failed call is rethrown, whatever the options).
C5_RevokedResponseRemovesRecord ==
  [][\A p \in LProcs :
       /\ (lpc[p] = "responded" /\ lpc'[p] = "done" /\ lresp'[p].isRevoked)
            => /\ lres'[p] = Outcome("false", "revoked", FALSE)
               /\ lmStore' = None
       /\ (lpc[p] = "done" /\ lresp[p].isRevoked) => lmStore = None
       /\ (lpc[p] = "responded" /\ lpc'[p] = "done" /\ CallFailed(lresp'[p])
             /\ lmStore = None)
            => lres'[p] = Thrown]_vars

\* LicenseManager answered 'revoked' to a response that also said
\* isValid = true with an expiry in the future, and the store is empty.
C5_Witness ==
  /\ lpc["a"] = "done"
  /\ lresp["a"].isRevoked
  /\ lresp["a"].isValid = "true"
  /\ lresp["a"].expires = Some(MaxTime + 1)
  /\ lres["a"] = Outcome("false", "revoked", FALSE)
  /\ lmStore = None

\* C6: whenever the server's response has isRevoked = true, validateLicense
\* of license-validator.ts and of LicenseManager both answer isValid = false
\* and delete the stored record, also when the response has isValid = true
\* and an expiry in the future.
C6_RevocationTakesPrecedence ==
  [][/\ \A p \in VProcs :
          (vpc[p] = "responded" /\ vpc'[p] = "done" /\ vresp'[p].isRevoked)
            => /\ vres'[p].isValid = "false"
               /\ cfgKey' = NoKey
               /\ secExpires' = None
     /\ \A p \in LProcs :
          (lpc[p] = "responded" /\ lpc'[p] = "done" /\ lresp'[p].isRevoked)
            => /\ lres'[p].isValid = "false"
               /\ lmStore' = None]_vars

\* C7: once a revocation has cleared the stored record, the background
\* validateLicense that was started before the clear and applies its
\* response after it does not write the record back.
C7_NoWriteBackAfterRevocation ==
  [][(vstale["bg"] /\ vpc["bg"] = "responded" /\ vpc'["bg"] # "responded"
        /\ cfgKey = NoKey)
       => cfgKey' = NoKey]_vars

\* C8: when validations of the stored key overlap, a response older than the
\* one whose data is stored is not written over it: the validation that
\* applies such a response leaves the stored record as the more recent
\* response left it.
C8_OlderResponseNeverOverwrites ==
  [][\A p \in VProcs :
       (vsuperseded[p] /\ vpc[p] = "responded" /\ vpc'[p] # "responded"
          /\ cfgKey = vkey[p] /\ cfgKey' # NoKey)
         => UNCHANGED storeVars]_vars

\* The server rejected the credential outright.
Unauthorized(r) == r.kind = "http" /\ r.status \in {401, 403}

\* C9: a 401 or 403 response clears the stored record and yields
\* isValid = false, the offline grace of a stored record notwithstanding.
C9_UnauthorizedClearsAndDenies ==
  [][/\ \A p \in VProcs :
          /\ (vpc[p] = "responded" /\ vpc'[p] # "responded"
                /\ Unauthorized(vresp'[p]))
               => cfgKey' = NoKey
          /\ (vpc[p] # "done" /\ vpc'[p] = "done" /\ Unauthorized(vresp'[p]))
               => vres'[p].isValid = "false"
     /\ \A p \in LProcs :
          (lpc[p] = "responded" /\ lpc'[p] = "done" /\ Unauthorized(lresp'[p]))
            => /\ lmStore' = None
               /\ lres'[p].isValid # "true"]_vars

\* The validation failed transiently: a network error, a status that is not
\* ok and neither 401 nor 403, a body that does not parse, or a JSON body
\* without the expected fields.
Transient(r) ==
  \/ r.kind \in {"neterr", "badjson"}
  \/ (r.kind = "http" /\ r.status \notin {401, 403})
  \/ (r.kind = "json" /\ r.isValid = "undefined")

\* C10: a validation that fails transiently leaves the stored record
\* unchanged and is decided by the offline policy on that record.
C10_TransientFailureKeepsRecord ==
  [][/\ \A p \in VProcs :
          (vpc[p] = "responded" /\ vpc'[p] = "done" /\ Transient(vresp'[p]))
            => /\ UNCHANGED storeVars
               /\ vres'[p] = OfflineValidation(StoredLicense, vkey[p], now,
                                               gracePeriodDays)
     /\ \A p \in LProcs :
          (lpc[p] = "responded" /\ lpc'[p] = "done" /\ Transient(lresp'[p]))
            => /\ UNCHANGED lmStore
               /\ (lopts[p].allowOffline
                     => lres'[p] = OfflineOutcome(lmStore, lkey[p], lopts[p],
                                                  now))]_vars

\* C11: the engine returns every validation-domain outcome (server
\* unreachable, key rejected, expired, grace exceeded, revoked, no stored
\* record) as a result value: with the storage working, no validateLicense
\* of either engine ends by throwing.
C11_OutcomesReturnedAsData ==
  [][/\ \A p \in VProcs : vpc'[p] = "done" => vres'[p] # Rejected
     /\ \A p \in LProcs :
          (lpc[p] = "responded" /\ lpc'[p] = "done")
            => lres'[p].kind = "result"]_vars

\* C12: LicenseManager.validateLicense rejects whenever the server request
\* fails and the allowOffline option is not set, whatever record is stored.
C12_ThrowsWithoutAllowOffline ==
  [][\A p \in LProcs :
       (lpc[p] = "responded" /\ lpc'[p] = "done" /\ CallFailed(lresp'[p])
          /\ ~lopts[p].allowOffline)
         => lres'[p] = Thrown]_vars

\* LicenseManager rejected a call that failed without allowOffline although
\* an unexpired record of the presented key, validated today, is stored.
C12_Witness ==
  /\ lpc["a"] = "done"
  /\ CallFailed(lresp["a"])
  /\ ~lopts["a"].allowOffline
  /\ lmStore # None
  /\ lmStore[1].key = lkey["a"]
  /\ lmStore[1].lastValidated = now
  /\ lmStore[1].expiresAt = Some(MaxTime + 1)
  /\ lres["a"] = Thrown

\* C13: a failure to read the stored record is treated like an absent
\* record: the check ends with isValid = false, it neither raises to the
\* caller nor grants access.  On a storage that can fail: no validateLicense
\* ends by throwing where a readable record would have decided, and the gate
\* whose read failed does not invoke the operation.
C13_ReadFailureFailsClosed ==
  [][/\ \A p \in VProcs :
          (vpc[p] \in {"responded", "offline"}
             /\ vpc'[p] \notin {"responded", "offline"})
            => vres'[p] # Rejected
     /\ \A p \in LProcs :
          (lpc[p] = "responded" /\ lpc'[p] = "done" /\ CallFailed(lresp'[p])
             /\ lopts[p].allowOffline /\ lmStore # None
             /\ lmStore[1].key = lkey[p])
            => (lres'[p].kind = "result")
     /\ (fpc = "t_check" /\ gData = ErrorLicenseData /\ fpc' # fpc)
          => (fpc' = "g_done" /\ gOutcome' = "denied")]_vars

\* C14: a failure of the store write or clear that follows a server response
\* is surfaced to the caller as an error and never converted into an offline
\* result: a validateLicense that received a JSON response ends with the
\* server's verdict or by throwing.
C14_WriteFailureSurfaced ==
  [][/\ \A p \in VProcs :
          (vpc[p] = "responded" /\ vpc'[p] = "done"
             /\ vresp'[p].kind = "json")
            => \/ vres'[p] = Result(vresp'[p].isValid, "server", FALSE)
               \/ vres'[p] = Rejected
     /\ \A p \in LProcs :
          (lpc[p] = "responded" /\ lpc'[p] = "done"
             /\ lresp'[p].kind = "json")
            => \/ lres'[p] = OnlineOutcome(lresp'[p])
               \/ lres'[p] = Thrown]_vars

\* C16: the background validation of the cached path is fire-and-forget:
\* getLicense returns the cached result in the step that starts it, its
\* failure never becomes an unhandled rejection, and its completion changes
\* nothing of the gated call.
C16_BackgroundFireAndForget ==
  [][/\ (fpc = "g_final" /\ vpc'["bg"] = "fetching" /\ vpc["bg"] = "idle")
          => fpc' = "t_check"
     /\ vpc'["bg"] # "rejected"
     /\ (vpc["bg"] \in {"responded", "offline"} /\ vpc'["bg"] # vpc["bg"])
          => UNCHANGED gateVars]_vars

\* C17: tagCommand with type 'free' returns the very function it was given,
\* and calling that function performs no storage read, no license check and
\* no network request: the step of a free call changes nothing of the store,
\* of the validations in flight or of the gate's license data.
C17_FreePassesThrough ==
  [][/\ tagCommand("free", "fn") = "fn"
     /\ (fpc = "idle" /\ fpc' = "g_done")
          => /\ gOutcome' = "free"
             /\ UNCHANGED << storeVars, vprocVars, histVars, gKey, gData,
                             gVal >>]_vars

C17_Witness ==
  /\ fpc = "g_done"
  /\ gOutcome = "free"
  /\ cfgKey = NoKey
  /\ \A p \in VProcs : vpc[p] = "idle"

\* What the promise of a call of the paid wrapper settles to, by the way the
\* call ended: fn's value, undefined, or a rejection.
Resolution(outcome) ==
  IF outcome \in {"invoked", "free"} THEN "value"
  ELSE IF outcome \in {"denied", "error", "threw"} THEN "undefined"
  ELSE "rejected"

\* C18: the function tagCommand returns for a paid command never rejects: a
\* denial, an exception during validation and an exception of the wrapped
\* operation all end the call with undefined.
C18_PaidCallNeverRejects ==
  fpc = "g_done" => Resolution(gOutcome) \in {"value", "undefined"}

C18_Witness ==
  /\ fpc = "g_done"
  /\ gVal = Some(Rejected)
  /\ gOutcome = "error"
  /\ Resolution(gOutcome) = "undefined"

\* ------------------------------------------------------------- progress
\* The steps the program takes by itself once it can: processing a response
\* that has arrived, and every step of getLicense, tagCommand, activate and
\* LicenseManager.validateLicense that waits for nothing outside the program.
\* The arrival of the response (VServe, ManagerServe) is not among them:
\* fetch is called without a timeout or an abort signal, so nothing in the
\* program makes it settle.
ProgramStep ==
  \/ \E p \in VProcs : \E r \in ValidatorResponses : VProcess(p, r)
  \/ \E p \in VProcs : VOffline(p)
  \/ GetStoredKey
  \/ GetNeedsOnline
  \/ GetExpired
  \/ GetCached
  \/ GetValidated
  \/ GateCheck
  \/ GateValidated
  \/ GateReturn
  \/ ActivateReturn
  \/ \E p \in LProcs : \E r \in ManagerResponses : ManagerProcess(p, r)
  \/ \E p \in LProcs : ManagerReturn(p)

FairSpec == Init /\ [][Next]_vars /\ WF_vars(ProgramStep)

\* C15: every blocking check eventually returns: a gated call that waits for
\* a validation, and a LicenseManager.validateLicense whose request is out,
\* get their answer (a denial at the latest when the request times out).
C15_BlockingCheckReturns ==
  /\ (fpc \in {"g_wait", "t_wait"}) ~> (fpc = "g_done")
  /\ (\E p \in LProcs : lpc[p] = "fetching")
       ~> (\A p \in LProcs : lpc[p] # "fetching")

\* fetch rejected: the server could not be reached.
Unreachable(r) == r.kind = "neterr"

\* C19: with no stored record a check always attempts the online validation
\* before the protected operation can run, and when the server cannot be
\* reached it returns isValid = false ('unactivated'): the gate that finds
\* no record goes on to the network, and a validateLicense whose call failed
\* with nothing stored returns a result that denies.
C19_NoRecordValidatesOnline ==
  [][/\ (fpc = "g_key" /\ StoredLicense = None /\ fpc' # fpc)
          => fpc' \in {"g_needs", "g_wait"}
     /\ \A p \in VProcs :
          (vpc[p] = "responded" /\ vpc'[p] = "done" /\ Unreachable(vresp'[p])
             /\ StoredLicense = None)
            => (vres'[p].isValid = "false" /\ vres'[p] # Rejected)
     /\ \A p \in LProcs :
          (lpc[p] = "responded" /\ lpc'[p] = "done" /\ Unreachable(lresp'[p])
             /\ lmStore = None)
            => (lres'[p].kind = "result" /\ lres'[p].isValid = "false")]_vars

\* C20: the server is unreachable, the stored record carries the presented
\* key, now <= expiry and now - lastValidated <= grace: the check returns
\* isValid = true marked as offline (LicenseManager with allowOffline:
\* status 'grace', wasOffline; validateLicense: offlineGracePeriodUsed).
C20_OfflineGraceGrants ==
  [][/\ \A p \in VProcs :
          (vpc[p] = "responded" /\ vpc'[p] = "done" /\ Unreachable(vresp'[p])
             /\ StoredLicense # None
             /\ StoredLicense[1].key = vkey[p]
             /\ now <= StoredLicense[1].expiresOn
             /\ now - StoredLicense[1].lastValidated <= gracePeriodDays)
            => vres'[p] = Result("true", "offline-grace", TRUE)
     /\ \A p \in LProcs :
          (lpc[p] = "responded" /\ lpc'[p] = "done" /\ Unreachable(lresp'[p])
             /\ lopts[p].allowOffline
             /\ lmStore # None
             /\ lmStore[1].key = lkey[p]
             /\ lmStore[1].expiresAt # None
             /\ now <= lmStore[1].expiresAt[1]
             /\ now - lmStore[1].lastValidated <= ManagerGrace(lopts[p]))
            => lres'[p] = Outcome("true", "grace", TRUE)]_vars

\* The same with now < expiry for validateLicense (the comparison the code
\* makes): before the instant of expiry the offline grant is given.
C20_BeforeExpiryOfflineGrants ==
  [][/\ \A p \in VProcs :
          (vpc[p] = "responded" /\ vpc'[p] = "done"
             /\ Unreachable(vresp'[p])
             /\ StoredLicense # None
             /\ StoredLicense[1].key = vkey[p]
             /\ now < StoredLicense[1].expiresOn
             /\ now - StoredLicense[1].lastValidated <= gracePeriodDays)
            => vres'[p] = Result("true", "offline-grace", TRUE)
     /\ \A p \in LProcs :
          (lpc[p] = "responded" /\ lpc'[p] = "done"
             /\ Unreachable(lresp'[p])
             /\ lopts[p].allowOffline
             /\ lmStore # None
             /\ lmStore[1].key = lkey[p]
             /\ lmStore[1].expiresAt # None
             /\ now <= lmStore[1].expiresAt[1]
             /\ now - lmStore[1].lastValidated <= ManagerGrace(lopts[p]))
            => lres'[p] = Outcome("true", "grace", TRUE)]_vars

\* The expiresOn field of the object validateLicense returns: the server's
\* after a parsed response, the stored record's with the offline grant,
\* absent in the other results of the catch branch.
ReturnedExpiresOn(r, data, result) ==
  IF ResponseRoute(r) \in {"store", "clear"} /\ r.status = 200 THEN r.expires
  ELSE IF result.offline THEN Some(data[1].expiresOn)
  ELSE None

ValidateRun(data, licenseKey, r, t) ==
  LET route == ResponseRoute(r)
      after == CASE route = "store" ->
                      getLicenseData(licenseKey, r.expires, Some(t),
                                     Some(MachineId))
                 [] route = "clear" -> None
                 [] OTHER -> data
  IN [store |-> after,
      result |-> IF route = "offline" \/ r.status = 403
                 THEN OfflineValidation(after, licenseKey, t, gracePeriodDays)
                 ELSE Result(r.isValid, "server", FALSE)]

\* getLicense(context) run from its first line to its return on the stored
\* record data, with the server answering r to every request: isValid of the
\* returned object ("null" when getLicense returns null) and the record
\* stored afterwards.  On the cached path the validation started in the
\* background has been applied to the store (bgDone) or is still out.
GetLicenseRun(data, r, t, bgDone) ==
  IF data = None THEN [store |-> None, isValid |-> "null"]
  ELSE IF needsOnlineValidation(data, t, gracePeriodDays)
          \/ isLicenseExpired(data, t)
       THEN LET v == ValidateRun(data, data[1].key, r, t)
            IN [store |-> v.store, isValid |-> v.result.isValid]
       ELSE [store |-> IF bgDone
                       THEN ValidateRun(data, data[1].key, r, t).store
                       ELSE data,
             isValid |-> "true"]

\* The steps of the model agree with the runs: a validation that settles in
\* one step leaves the store and the result of ValidateRun, and a getLicense
\* that returns for a missing key, or from the cache at an instant at which
\* its two tests still hold, returns what GetLicenseRun returns.
RunsAgreeWithSteps ==
  [][/\ \A p \in VProcs :
          (vpc[p] = "responded" /\ vpc'[p] = "done")
            => LET v == ValidateRun(StoredLicense, vkey[p], vresp'[p], now)
               IN /\ vres'[p] = v.result
                  /\ getLicenseData(cfgKey', secExpires', secLastValidated',
                                    secMachineId') = v.store
     /\ (\/ fpc = "g_key" /\ fpc' = "t_check"
         \/ /\ fpc = "g_final" /\ fpc' = "t_check"
            /\ ~needsOnlineValidation(StoredLicense, now, gracePeriodDays)
            /\ ~isLicenseExpired(StoredLicense, now))
          => LET g == GetLicenseRun(StoredLicense, NetworkError, now, FALSE)
             IN IF gData' = None THEN g.isValid = "null"
                ELSE gData'[1].isValid = g.isValid]_vars

\* C22: getLicense is idempotent: from every reachable stored state, with
\* no time elapsed and the server answering every request the same way, a
\* second getLicense made right after the first returns the same isValid
\* (a license is granted by both or by neither).
C22_GetLicenseIdempotent ==
  \A r \in ValidatorResponses : \A b1 \in BOOLEAN : \A b2 \in BOOLEAN :
    LET first == GetLicenseRun(StoredLicense, r, now, b1)
        second == GetLicenseRun(first.store, r, now, b2)
    IN (first.isValid = "true") <=> (second.isValid = "true")

\* The same when the second call is made before the background validation
\* of the first has been applied to the store.
C22_IdempotentBeforeBackground ==
  \A r \in ValidatorResponses : \A b2 \in BOOLEAN :
    LET first == GetLicenseRun(StoredLicense, r, now, FALSE)
        second == GetLicenseRun(first.store, r, now, b2)
    IN (first.isValid = "true") <=> (second.isValid = "true")

\* ------------------------------------------------ the record as stored
\* JSON.stringify(data) of LicenseManager.storeLicenseData: the text has the
\* fields whose value is defined; a field that is undefined is left out.
JSONstringify(data) ==
  IF data.expiresAt = None
  THEN [key |-> data.key, lastValidated |-> data.lastValidated,
        status |-> data.status, gracePeriodMs |-> data.gracePeriodMs]
  ELSE [key |-> data.key, lastValidated |-> data.lastValidated,
        expiresAt |-> data.expiresAt[1],
        status |-> data.status, gracePeriodMs |-> data.gracePeriodMs]

\* JSON.parse(text): a field the text does not have reads as undefined.
JSONparse(text) ==
  [key |-> text.key, lastValidated |-> text.lastValidated,
   expiresAt |-> IF "expiresAt" \in DOMAIN text THEN Some(text.expiresAt)
                 ELSE None,
   status |-> text.status, gracePeriodMs |-> text.gracePeriodMs]

\* getStoredLicenseData on what storage.getItem returns.
getStoredLicenseData(item) ==
  IF item = None THEN None ELSE Some(JSONparse(item[1]))

\* The answers of a server whose 200 body may lack the expiry field that the
\* code reads (the body of the repository's own validator test carries
\* expiresAt, validateLicense reads result.expiresOn).
RoundTripValidatorResponses ==
  ValidatorResponses \cup {JsonBody("true", FALSE, None, None)}

RoundTripManagerResponses ==
  ManagerResponses \cup {JsonBody("true", FALSE, None, None)}

\* Activations and LicenseManager validations against such a server.
RoundTripNext ==
  \/ Tick
  \/ \E k \in Keys : ActivateCommand(k)
  \/ VServe("fg")
  \/ \E r \in RoundTripValidatorResponses : VProcess("fg", r)
  \/ VOffline("fg")
  \/ ActivateReturn
  \/ \E p \in LProcs : \E k \in Keys : \E o \in OptionChoices :
       ManagerValidate(p, k, o)
  \/ \E p \in LProcs : ManagerServe(p)
  \/ \E p \in LProcs : \E r \in RoundTripManagerResponses : ManagerProcess(p, r)
  \/ \E p \in LProcs : ManagerReturn(p)

RoundTripSpec == Init /\ [][RoundTripNext]_vars

\* C23: a record stored by storeLicenseData of license-validator.ts, or by
\* LicenseManager.storeLicenseData, and read back at once is present and has
\* every field as it was written, for every record a server response can
\* produce.
C23_RecordRoundTrip ==
  [][/\ \A p \in VProcs :
          (vpc[p] = "responded" /\ vpc'[p] = "done"
             /\ ResponseRoute(vresp'[p]) = "store")
            => LET read == getLicenseData(cfgKey', secExpires',
                                          secLastValidated', secMachineId')
               IN /\ read # None
                  /\ read[1].key = vkey[p]
                  /\ Some(read[1].expiresOn) = vresp'[p].expires
                  /\ read[1].lastValidated = now
                  /\ read[1].machineId = MachineId
     /\ \A p \in LProcs :
          (lpc[p] = "responded" /\ lpc'[p] = "done"
             /\ lresp'[p].kind = "json" /\ ~lresp'[p].isRevoked)
            => LET data == LocalLicenseData(lkey[p], lresp'[p], now)
               IN /\ getStoredLicenseData(Some(JSONstringify(data)))
                       = Some(data)
                  /\ lmStore' = Some(data)]_vars

\* ------------------------------------------------- the store, write by write
\* storeLicenseData and clearLicenseData are four awaited calls each
\* (config.update, then three secrets.store / secrets.delete); between two
\* of them the other callbacks of the host run.  The specification below
\* takes the writes one at a time: a validation that stores is at "w1", "w2",
\* "w3" after its first, second and third write, one that clears at "c1",
\* "c2", "c3".  getLicenseData is read in one step.  The clock, in days,
\* does not advance while a write is in progress.
StorePositions == {"w1", "w2", "w3"}
ClearPositions == {"c1", "c2", "c3"}

\* The record that validateLicense(p) hands to storeLicenseData.
RecordToStore(p, r) ==
  getLicenseData(vkey[p], r.expires, Some(now), Some(MachineId))

\* validateLicense after the response: the first write, config.update of
\* "license-key" with the key (store) or with "" (clear).
TornProcess(p, r) ==
  /\ engine = "validator"
  /\ vpc[p] = "responded"
  /\ ResponseRoute(r) \in {"store", "clear"}
  /\ cfgKey' = IF ResponseRoute(r) = "store" THEN vkey[p] ELSE NoKey
  /\ vpc' = [vpc EXCEPT ![p] = IF ResponseRoute(r) = "store" THEN "w1"
                                ELSE "c1"]
  /\ vresp' = [vresp EXCEPT ![p] = r]
  /\ UNCHANGED << hostVars, now, secExpires, secLastValidated, secMachineId,
                  vkey, vres, gateVars, managerVars, histVars >>

\* storeLicenseData: the three secrets.store calls, then the return of the
\* server's verdict.
TornWrite(p) ==
  /\ vpc[p] \in StorePositions
  /\ CASE vpc[p] = "w1" ->
            /\ secExpires' = vresp[p].expires
            /\ vpc' = [vpc EXCEPT ![p] = "w2"]
            /\ UNCHANGED << secLastValidated, secMachineId, vkey, vresp,
                            vres, histVars >>
       [] vpc[p] = "w2" ->
            /\ secLastValidated' = Some(now)
            /\ vpc' = [vpc EXCEPT ![p] = "w3"]
            /\ UNCHANGED << secExpires, secMachineId, vkey, vresp, vres,
                            histVars >>
       [] vpc[p] = "w3" ->
            /\ secMachineId' = Some(MachineId)
            /\ Settle(p, vresp[p], Result(vresp[p].isValid, "server", FALSE),
                      vsuperseded, vstale)
            /\ UNCHANGED << secExpires, secLastValidated >>
  /\ UNCHANGED << hostVars, now, cfgKey, gateVars, managerVars >>

\* clearLicenseData: the three secrets.delete calls, then the return (after
\* a 403: the throw into the catch branch).
TornClear(p) ==
  /\ vpc[p] \in ClearPositions
  /\ CASE vpc[p] = "c1" ->
            /\ secExpires' = None
            /\ vpc' = [vpc EXCEPT ![p] = "c2"]
            /\ UNCHANGED << secLastValidated, secMachineId, vkey, vresp,
                            vres, histVars >>
       [] vpc[p] = "c2" ->
            /\ secLastValidated' = None
            /\ vpc' = [vpc EXCEPT ![p] = "c3"]
            /\ UNCHANGED << secExpires, secMachineId, vkey, vresp, vres,
                            histVars >>
       [] vpc[p] = "c3" ->
            /\ secMachineId' = None
            /\ IF vresp[p].status = 403
               THEN /\ vpc' = [vpc EXCEPT ![p] = "offline"]
                    /\ UNCHANGED << vkey, vresp, vres, histVars >>
               ELSE Settle(p, vresp[p],
                           Result(vresp[p].isValid, "server", FALSE),
                           vsuperseded, vstale)
            /\ UNCHANGED << secExpires, secLastValidated >>
  /\ UNCHANGED << hostVars, now, cfgKey, gateVars, managerVars >>

\* A response that leaves the store alone goes the way of VProcess.
TornOffline(p, r) ==
  /\ ResponseRoute(r) = "offline"
  /\ VProcess(p, r)

TornTick ==
  /\ \A p \in VProcs : vpc[p] \notin StorePositions \cup ClearPositions
  /\ Tick

\* One answer of each kind that validateLicense tells apart.
TornResponses ==
  {NetworkError, HttpStatus(403), JsonBody("false", FALSE, None, None)}
  \cup {JsonBody("true", FALSE, Some(e), None) : e \in ExpiryChoices}

TornNext ==
  \/ TornTick
  \/ \E p \in VProcs : VServe(p)
  \/ \E p \in VProcs : \E r \in TornResponses : TornProcess(p, r)
  \/ \E p \in VProcs : \E r \in TornResponses : TornOffline(p, r)
  \/ \E p \in VProcs : TornWrite(p)
  \/ \E p \in VProcs : TornClear(p)
  \/ \E p \in VProcs : VOffline(p)
  \/ GateStep
  \/ \E k \in Keys : ActivateCommand(k)
  \/ ActivateReturn

TornSpec == Init /\ [][TornNext]_vars

\* C24: store operations are atomic.  Whenever the record that
\* getLicenseData returns changes, it becomes absent or the complete record
\* of a store in progress: a read between two writes never returns a record
\* that mixes fields of two writes.
C24_StoreAtomic ==
  [][StoredLicense' # StoredLicense
       => \/ getLicenseData(cfgKey', secExpires', secLastValidated',
                            secMachineId') = None
          \/ \E p \in VProcs :
               /\ vpc[p] \in {"responded"} \cup StorePositions
               /\ getLicenseData(cfgKey', secExpires', secLastValidated',
                                 secMachineId')
                    = RecordToStore(p, vresp'[p])]_vars

\* C25: the offline window is bounded by the grace period stored from the
\* server: LicenseManager.validateLicense never returns isValid = true
\* offline once now - lastValidated exceeds the stored record's gracePeriodMs,
\* whatever options the caller passes.
C25_OfflineBoundedByStoredGrace ==
  [][\A p \in LProcs :
       (lpc[p] = "responded" /\ lpc'[p] = "done"
          /\ lres'[p].kind = "result" /\ lres'[p].wasOffline
          /\ lres'[p].isValid = "true")
         => /\ lmStore # None
            /\ now - lmStore[1].lastValidated <= lmStore[1].gracePeriodMs]_vars

\* The same bound with the grace period that validateOffline applies, the
\* caller's options.gracePeriodMs when given and the stored one otherwise.
C25_OfflineBoundedByAppliedGrace ==
  [][\A p \in LProcs :
       (lpc[p] = "responded" /\ lpc'[p] = "done"
          /\ lres'[p].kind = "result" /\ lres'[p].wasOffline
          /\ lres'[p].isValid = "true")
         => /\ lmStore # None
            /\ now - lmStore[1].lastValidated <= ManagerGrace(lopts[p])]_vars

\* C26: when the server answers 200 with isValid = false, validateLicense of
\* license-validator.ts returns isValid = false with the server's message
\* and clears all stored license data: key, expiry, last-validated and
\* machine id.
C26_InvalidAnswerClears ==
  [][\A p \in VProcs :
       (vpc[p] = "responded" /\ vpc'[p] = "done"
          /\ vresp'[p].kind = "json" /\ vresp'[p].isValid = "false")
         => /\ vres'[p] = Result("false", "server", FALSE)
            /\ cfgKey' = NoKey
            /\ secExpires' = None
            /\ secLastValidated' = None
            /\ secMachineId' = None]_vars

\* The gate read a stored key, awaited the validation, and the server's 200
\* answer with isValid = false has emptied the store.
C26_Witness ==
  /\ fpc = "g_wait"
  /\ gKey # NoKey
  /\ vpc["fg"] = "done"
  /\ vresp["fg"] = JsonBody("false", FALSE, None, None)
  /\ vres["fg"] = Result("false", "server", FALSE)
  /\ cfgKey = NoKey
  /\ secExpires = None
  /\ secLastValidated = None
  /\ secMachineId = None

\* The grace period that the SDK documentation states, in days.
documentedGraceDays == 7

\* C27: the offline grace period applied when commands are gated is 7 days
\* from the last successful validation: with the server unreachable a
\* non-expired record last validated at most 7 days ago is accepted (the
\* gate does not ask for an online validation on account of its age, and a
\* validateLicense that cannot reach the server grants), and one validated
\* more than 7 days ago is denied.
C27_SevenDayGrace ==
  [][/\ (fpc = "g_needs" /\ fpc' # fpc /\ StoredLicense # None
           /\ now - StoredLicense[1].lastValidated <= documentedGraceDays)
          => fpc' = "g_expired"
     /\ \A p \in VProcs :
          (vpc[p] = "responded" /\ vpc'[p] = "done"
             /\ Unreachable(vresp'[p])
             /\ StoredLicense # None
             /\ StoredLicense[1].key = vkey[p]
             /\ now < StoredLicense[1].expiresOn)
            => (vres'[p].isValid = "true"
                  <=> now - StoredLicense[1].lastValidated
                        <= documentedGraceDays)]_vars

\* The same with the grace period of the code, gracePeriodDays.
C27_CodeGrace ==
  [][/\ (fpc = "g_needs" /\ fpc' # fpc /\ StoredLicense # None
           /\ now - StoredLicense[1].lastValidated <= gracePeriodDays)
          => fpc' = "g_expired"
     /\ \A p \in VProcs :
          (vpc[p] = "responded" /\ vpc'[p] = "done"
             /\ Unreachable(vresp'[p])
             /\ StoredLicense # None
             /\ StoredLicense[1].key = vkey[p]
             /\ now < StoredLicense[1].expiresOn)
            => (vres'[p].isValid = "true"
                  <=> now - StoredLicense[1].lastValidated
                        <= gracePeriodDays)]_vars

\* ------------------------------------------------------ host sessions
\* The editor is closed and started again on the same machine: nothing is
\* in flight, what is stored stays, and vscode.env.sessionId is a new one.
Restart ==
  /\ fpc = "idle"
  /\ \A p \in VProcs : vpc[p] = "idle"
  /\ \A p \in LProcs : lpc[p] = "idle"
  /\ session' \in Sessions \ {session}
  /\ UNCHANGED << engine, fsVars, extVars, now, storeVars, vprocVars,
                  gateVars, managerVars, histVars >>

SessionNext == Next \/ Restart

SessionSpec == Init /\ [][SessionNext]_vars

\* C28: the machine fingerprint is a deterministic function of values that
\* identify the host: computed in another session of the same machine and
\* installation it is the same, so the machine id stored with a record is
\* the one generateMachineId gives at any later time.
C28_FingerprintStable ==
  secMachineId # None => secMachineId = Some(MachineId)

\* --------------------------------------- node-storage.ts, BrowserStorage
\* The calls made on one key of a NodeStorage, and on one key of a
\* BrowserStorage.  Call i is made after call i - 1 has been made; what the
\* file system does for the calls in flight it does in any order.
licenseVars == << engine, session, extVars, now, storeVars, vprocVars,
                 gateVars, managerVars, histVars >>

\* A getItem that rethrows ENOENT like every other error.
getItemResultThrows(file) == IF file = None THEN "error" ELSE file[1]

\* getItem: the content of the file, null when there is no file (ENOENT).
getItemResult(file) == IF file = None THEN "null" ELSE file[1]

InFlight(i) == calls[i].op # "none" /\ calls[i].pc # "done"
Ended(i) == calls[i].op # "none" /\ calls[i].pc = "done"

\* A call is made: the method runs to its first await, with fs.access
\* (setItem, in ensureDirectory), fs.unlink (removeItem) or fs.readFile
\* (getItem) handed to the file system.
StorageCall(i, op, v) ==
  /\ calls[i].op = "none"
  /\ IF i = 1 THEN TRUE ELSE calls[i - 1].op # "none"
  /\ calls' = [calls EXCEPT ![i] =
                 [op |-> op, value |-> IF op = "set" THEN v ELSE "",
                  pc |-> CASE op = "set" -> "access"
                           [] op = "remove" -> "unlink"
                           [] op = "get" -> "read",
                  result |-> "none"]]
  /\ sequential' = (sequential /\ \A j \in CallIds : ~InFlight(j))
  /\ burst' = (burst /\ \A j \in CallIds : ~Ended(j))
  /\ expected' = CASE op = "set" -> Some(v)
                   [] op = "remove" -> None
                   [] op = "get" -> expected
  /\ UNCHANGED << licenseVars, fsDir, fsFile, lsItem, lsRead, lsExpected >>

\* ensureDirectory: fs.access settles; when it rejects, fs.mkdir is called.
EnsureAccess(i) ==
  /\ calls[i].pc = "access"
  /\ calls' = [calls EXCEPT ![i].pc = IF fsDir THEN "write" ELSE "mkdir"]
  /\ UNCHANGED << licenseVars, fsDir, fsFile, lsItem, lsRead, sequential,
                  burst, expected, lsExpected >>

\* ensureDirectory: fs.mkdir(storagePath, {recursive: true}) settles and
\* setItem calls fs.writeFile.
EnsureMkdir(i) ==
  /\ calls[i].pc = "mkdir"
  /\ fsDir' = TRUE
  /\ calls' = [calls EXCEPT ![i].pc = "write"]
  /\ UNCHANGED << licenseVars, fsFile, lsItem, lsRead, sequential, burst,
                  expected, lsExpected >>

\* setItem: fs.writeFile settles, the file has this call's value.
SetWrite(i) ==
  /\ calls[i].pc = "write"
  /\ fsFile' = Some(calls[i].value)
  /\ calls' = [calls EXCEPT ![i].pc = "done", ![i].result = "ok"]
  /\ UNCHANGED << licenseVars, fsDir, lsItem, lsRead, sequential, burst,
                  expected, lsExpected >>

\* removeItem: fs.unlink settles; ENOENT (no file) is swallowed.
RemoveUnlink(i) ==
  /\ calls[i].pc = "unlink"
  /\ fsFile' = None
  /\ calls' = [calls EXCEPT ![i].pc = "done", ![i].result = "ok"]
  /\ UNCHANGED << licenseVars, fsDir, lsItem, lsRead, sequential, burst,
                  expected, lsExpected >>

\* getItem: fs.readFile settles.
GetRead(i) ==
  /\ calls[i].pc = "read"
  /\ calls' = [calls EXCEPT ![i].pc = "done",
                            ![i].result = getItemResult(fsFile)]
  /\ UNCHANGED << licenseVars, fsDir, fsFile, lsItem, lsRead, sequential,
                  burst, expected, lsExpected >>

\* BrowserStorage: each method is one synchronous localStorage call.
BrowserSet(v) ==
  /\ lsItem' = Some(v)
  /\ lsExpected' = Some(v)
  /\ lsRead' = "none"
  /\ UNCHANGED << licenseVars, fsDir, fsFile, calls, sequential, burst,
                  expected >>

BrowserRemove ==
  /\ lsItem' = None
  /\ lsExpected' = None
  /\ lsRead' = "removed"
  /\ UNCHANGED << licenseVars, fsDir, fsFile, calls, sequential, burst,
                  expected >>

BrowserGet ==
  /\ lsRead' = getItemResult(lsItem)
  /\ UNCHANGED << licenseVars, fsDir, fsFile, calls, lsItem, sequential,
                  burst, expected, lsExpected >>

StorageNext ==
  \/ \E i \in CallIds : \E op \in {"set", "remove", "get"} : \E v \in Values :
       StorageCall(i, op, v)
  \/ \E i \in CallIds : EnsureAccess(i)
  \/ \E i \in CallIds : EnsureMkdir(i)
  \/ \E i \in CallIds : SetWrite(i)
  \/ \E i \in CallIds : RemoveUnlink(i)
  \/ \E i \in CallIds : GetRead(i)
  \/ \E v \in Values : BrowserSet(v)
  \/ BrowserRemove
  \/ BrowserGet

StorageSpec == Init /\ [][StorageNext]_vars

\* C29: after several setItem calls on the same key were started
\* concurrently, in a given order, and all have completed, getItem returns
\* the value of the call issued last.
C29_LastIssuedWins ==
  (burst /\ \A i \in CallIds : calls[i].op = "set" /\ Ended(i))
    => getItemResult(fsFile) = calls[MaxCalls].value

\* C30: after any sequence of setItem and removeItem calls on a key, each
\* made when the previous has ended, getItem returns the value of the last
\* setItem if no removeItem followed it and null otherwise, also for a key
\* never set; removeItem succeeds whether or not the key is present.
C30_LastSetOrNull ==
  [][/\ \A i \in CallIds :
          (calls[i].pc = "read" /\ calls'[i].pc = "done" /\ sequential)
            => calls'[i].result = IF expected = None THEN "null"
                                  ELSE expected[1]
     /\ \A i \in CallIds :
          (calls[i].pc = "unlink" /\ calls'[i].pc = "done")
            => (calls'[i].result = "ok" /\ fsFile' = None)
     /\ lsItem' = lsExpected'
     /\ lsRead' # lsRead /\ lsRead' \notin {"none", "removed"}
          => lsRead' = IF lsExpected = None THEN "null"
                       ELSE lsExpected[1]]_vars

\* A value was set, then removed, then read, one call after the other:
\* the read returned null; and a BrowserStorage read of an absent key
\* returned null.
C30_Witness ==
  /\ sequential
  /\ calls[1].op = "set" /\ calls[2].op = "remove"
  /\ calls[3].op = "get" /\ Ended(3)
  /\ calls[3].result = "null"
  /\ lsExpected = None
  /\ lsRead = "null"
\* ------------------------------------------------ rejected credentials
\* The record of LicenseManager was written from an answer that did not
\* confirm the key: validateLicense stores status "expired" for it.
RecordRejected == lmStore # None /\ lmStore[1].status = "expired"

\* C31: after the server's latest answer for a key was isValid = false (not
\* revoked), no offline check of that key returns isValid = true until an
\* online validation succeeds; and lastValidated of the stored record is
\* written only from an answer with isValid = true.
C31_NoValidityFromRejected ==
  [][\A p \in LProcs :
       (lpc[p] = "responded" /\ lpc'[p] = "done")
         => /\ (CallFailed(lresp'[p]) /\ RecordRejected
                  /\ lmStore[1].key = lkey[p])
                 => lres'[p].isValid # "true"
            /\ (lmStore' # None /\ lmStore' # lmStore)
                 => lresp'[p].isValid = "true"]_vars

\* What does hold: an offline check is granted only to a record whose key
\* is the key presented, whatever answer the record was written from.
C31_OfflineOnlyFromRecord ==
  [][\A p \in LProcs :
       (lpc[p] = "responded" /\ lpc'[p] = "done" /\ CallFailed(lresp'[p])
          /\ lres'[p].isValid = "true")
         => (lmStore # None /\ lmStore[1].key = lkey[p])]_vars

\* ------------------------------------------------- key of the record
\* C32: when the network validation fails and the key presented differs from
\* the key of the stored record, the check never returns isValid = true:
\* validateLicense of license-validator.ts returns isValid = false with the
\* key-mismatch message, LicenseManager.validateLicense rethrows the error.
C32_OfflineOnlyForStoredKey ==
  [][/\ \A p \in VProcs :
          (vpc[p] # "done" /\ vpc'[p] = "done" /\ CallFailed(vresp'[p])
             /\ StoredLicense # None /\ StoredLicense[1].key # vkey[p])
            => vres'[p] = Result("false", "key-mismatch", FALSE)
     /\ \A p \in LProcs :
          (lpc[p] = "responded" /\ lpc'[p] = "done" /\ CallFailed(lresp'[p])
             /\ lmStore # None /\ lmStore[1].key # lkey[p])
            => lres'[p] = Thrown]_vars

\* A license for one key is stored, valid and inside its grace period; the
\* other key was presented, the server was not reached, and the answer is
\* the key mismatch.
C32_Witness ==
  /\ vpc["fg"] = "done"
  /\ vresp["fg"] = NetworkError
  /\ StoredLicense # None
  /\ StoredLicense[1].key # vkey["fg"]
  /\ StoredLicense[1].expiresOn > now
  /\ now - StoredLicense[1].lastValidated <= gracePeriodDays
  /\ vres["fg"] = Result("false", "key-mismatch", FALSE)

\* C33: the key of the stored record changes only through a successful
\* validation of a new key, which replaces the whole record; a validation of
\* another key that the server rejects, reports revoked, or that fails
\* leaves the stored record of the first key as it is.
C33_KeyChangesOnlyOnSuccess ==
  [][/\ \A p \in VProcs :
          (vpc[p] = "responded" /\ vpc'[p] # "responded"
             /\ StoredLicense # None /\ StoredLicense[1].key # vkey[p]
             /\ storeVars' # storeVars)
            => /\ cfgKey' = vkey[p]
               /\ secLastValidated' = Some(now)
               /\ secMachineId' = Some(MachineId)
     /\ \A p \in LProcs :
          (lpc[p] = "responded" /\ lpc'[p] = "done"
             /\ lmStore # None /\ lmStore[1].key # lkey[p]
             /\ lmStore' # lmStore)
            => /\ lresp'[p].isValid = "true" /\ ~lresp'[p].isRevoked
               /\ lmStore' = Some(LocalLicenseData(lkey[p], lresp'[p], now))]_vars

\* What does hold: a validation of another key that fails without an answer
\* of the server other than 403 leaves the stored record as it is.
C33_FailedCallKeepsRecord ==
  [][/\ \A p \in VProcs :
          (vpc[p] = "responded" /\ vpc'[p] = "done"
             /\ CallFailed(vresp'[p]) /\ vresp'[p].status # 403)
            => UNCHANGED storeVars
     /\ \A p \in LProcs :
          (lpc[p] = "responded" /\ lpc'[p] = "done" /\ CallFailed(lresp'[p]))
            => UNCHANGED lmStore]_vars

\* ------------------------------------------------------ expiry boundary
\* The stored license of license-validator.ts as a record of LicenseManager.
AsManagerRecord(d) ==
  [key |-> d.key, lastValidated |-> d.lastValidated,
   expiresAt |-> Some(d.expiresOn), status |-> "active",
   gracePeriodMs |-> gracePeriodDays]

\* The three places that decide expiry, asked about the stored license at
\* the instant t: isLicenseExpired, the catch branch of validateLicense, and
\* validateOffline of LicenseManager (with a grace period that cannot run
\* out, so that its answer depends on the expiry only).
ExpiredByGetter(t) == isLicenseExpired(StoredLicense, t)
ExpiredByCatchBranch(t) ==
  OfflineValidation(StoredLicense, StoredLicense[1].key, t, MaxTime).message
    = "expired"
ExpiredByManager(t) ==
  validateOffline(AsManagerRecord(StoredLicense[1]),
                  [allowOffline |-> TRUE, gracePeriodMs |-> Some(MaxTime)],
                  t).isValid # "true"

\* C34: expiry is decided by now > expiresOn, so that a record whose expiry
\* is the current instant is not yet expired, and isLicenseExpired, the
\* offline branch of validateLicense and LicenseManager.validateOffline
\* agree on it.
C34_ExpiryBoundary ==
  StoredLicense # None
    => /\ ExpiredByGetter(now) = (now > StoredLicense[1].expiresOn)
       /\ ExpiredByCatchBranch(now) = (now > StoredLicense[1].expiresOn)
       /\ ExpiredByManager(now) = (now > StoredLicense[1].expiresOn)

\* What does hold: at every instant other than the expiry itself the three
\* agree with now > expiresOn, and LicenseManager does so at the expiry too.
C34_AgreeOffBoundary ==
  StoredLicense # None
    => /\ ExpiredByManager(now) = (now > StoredLicense[1].expiresOn)
       /\ now # StoredLicense[1].expiresOn
            => /\ ExpiredByGetter(now) = (now > StoredLicense[1].expiresOn)
               /\ ExpiredByCatchBranch(now) = (now > StoredLicense[1].expiresOn)

\* ------------------------------------------------- stored grace period
\* The server confirmed the key of p: a body with isValid true, not revoked.
ManagerConfirmed(p) ==
  /\ lpc[p] = "responded" /\ lpc'[p] = "done"
  /\ lresp'[p].kind = "json"
  /\ lresp'[p].isValid = "true"
  /\ ~lresp'[p].isRevoked

\* C35: after a successful online validation LicenseManager stores as the
\* grace period of the record the gracePeriodMs of the server whenever the
\* server supplied one, the value 0 included, and the default of 7 days only
\* when the server supplied none.
C35_ServerGraceStored ==
  [][\A p \in LProcs :
       ManagerConfirmed(p)
         => /\ lmStore' # None
            /\ lmStore'[1].gracePeriodMs =
                 IF lresp'[p].grace # None THEN lresp'[p].grace[1]
                 ELSE DEFAULT_GRACE_PERIOD_MS]_vars

\* What does hold: the same for every grace period of the server but 0.
C35_NonZeroGraceStored ==
  [][\A p \in LProcs :
       (ManagerConfirmed(p) /\ lresp'[p].grace # Some(0))
         => /\ lmStore' # None
            /\ lmStore'[1].gracePeriodMs =
                 IF lresp'[p].grace # None THEN lresp'[p].grace[1]
                 ELSE DEFAULT_GRACE_PERIOD_MS]_vars

\* ----------------------------------- activate.ts injectCheckoutCommands
\* The function returned by injectCheckoutCommands(originalActivate,
\* options), called once by the host with the extension context.
\* vscode.commands.registerCommand and vscode.window.registerUriHandler are
\* "host" (the functions of the host) or "injected" (the substitutes).
licenseAndStorageVars ==
  << engine, session, fsVars, buildVars, now, storeVars, vprocVars,
     gateVars, managerVars, histVars >>

\* A command registered through fn with the given number of analytics
\* wrappers already around its callback: the substitute adds one.
Registration(fn, commandId, wrappers) ==
  [id |-> commandId,
   analytics |-> IF fn = "injected" THEN wrappers + 1 ELSE wrappers]

\* "Restore original functions".
RestoreOriginals ==
  /\ registerUriHandler' = originalRegisterUriHandler
  /\ registerCommand' = originalRegisterCommand

\* The host calls the returned function: setTestMode is awaited.
ActivateEnter ==
  /\ apc = "idle"
  /\ apc' = "a_testmode"
  /\ UNCHANGED << licenseAndStorageVars, secTestMode, registerCommand,
                  registerUriHandler, originalRegisterCommand,
                  originalRegisterUriHandler, handlerRegistered, commands,
                  uriHandlers >>

\* setTestMode stored options.testMode: the two functions are remembered
\* and substituted, and originalActivate is called.
ActivateSubstitute(testMode) ==
  /\ apc = "a_testmode"
  /\ secTestMode' = Some(testMode)
  /\ originalRegisterUriHandler' = registerUriHandler
  /\ originalRegisterCommand' = registerCommand
  /\ registerCommand' = "injected"
  /\ registerUriHandler' = "injected"
  /\ handlerRegistered' = FALSE
  /\ apc' = "a_original"
  /\ UNCHANGED << licenseAndStorageVars, commands, uriHandlers >>

\* setTestMode rejected (the secret storage failed): the catch block.
ActivateTestModeFails ==
  /\ apc = "a_testmode"
  /\ apc' = "a_catch"
  /\ UNCHANGED << licenseAndStorageVars, secTestMode, registerCommand,
                  registerUriHandler, originalRegisterCommand,
                  originalRegisterUriHandler, handlerRegistered, commands,
                  uriHandlers >>

\* originalActivate registers a command of the extension.
OriginalRegistersCommand(commandId) ==
  /\ apc = "a_original"
  /\ Len(commands) < MaxCommands
  /\ \A i \in 1 .. Len(commands) : commands[i].id # commandId
  /\ commands' = Append(commands, Registration(registerCommand, commandId, 0))
  /\ UNCHANGED << licenseAndStorageVars, apc, secTestMode, registerCommand,
                  registerUriHandler, originalRegisterCommand,
                  originalRegisterUriHandler, handlerRegistered, uriHandlers >>

\* originalActivate registers its URI handler.
OriginalRegistersUriHandler ==
  /\ apc = "a_original"
  /\ uriHandlers = << >>
  /\ handlerRegistered' = (handlerRegistered \/ registerUriHandler = "injected")
  /\ uriHandlers' = Append(uriHandlers,
                           IF registerUriHandler = "injected"
                           THEN "extension+activate" ELSE "extension")
  /\ UNCHANGED << licenseAndStorageVars, apc, secTestMode, registerCommand,
                  registerUriHandler, originalRegisterCommand,
                  originalRegisterUriHandler, commands >>

\* originalActivate returns: the original functions are restored.
OriginalReturns ==
  /\ apc = "a_original"
  /\ RestoreOriginals
  /\ apc' = "a_handler"
  /\ UNCHANGED << licenseAndStorageVars, secTestMode,
                  originalRegisterCommand, originalRegisterUriHandler,
                  handlerRegistered, commands, uriHandlers >>

\* originalActivate throws: control goes to the catch block.
OriginalThrows ==
  /\ apc = "a_original"
  /\ apc' = "a_catch"
  /\ UNCHANGED << licenseAndStorageVars, secTestMode, registerCommand,
                  registerUriHandler, originalRegisterCommand,
                  originalRegisterUriHandler, handlerRegistered, commands,
                  uriHandlers >>

\* "Register our own handler if none was registered".
ActivateOwnHandler ==
  /\ apc = "a_handler"
  /\ uriHandlers' = IF handlerRegistered THEN uriHandlers
                    ELSE Append(uriHandlers, "activate")
  /\ apc' = "a_commands"
  /\ UNCHANGED << licenseAndStorageVars, secTestMode, registerCommand,
                  registerUriHandler, originalRegisterCommand,
                  originalRegisterUriHandler, handlerRegistered, commands >>

\* getExtensionInfo found the three command ids; the three commands are
\* registered, each wrapped with analytics by the caller.
ActivateOwnCommands ==
  /\ apc = "a_commands"
  /\ commands' = commands
       \o [i \in 1 .. Len(CheckoutCommands) |->
             Registration(registerCommand, CheckoutCommands[i], 1)]
  /\ apc' = "returned"
  /\ UNCHANGED << licenseAndStorageVars, secTestMode, registerCommand,
                  registerUriHandler, originalRegisterCommand,
                  originalRegisterUriHandler, handlerRegistered, uriHandlers >>

\* getExtensionInfo throws (package.json cannot be read): the catch block.
ActivateInfoFails ==
  /\ apc = "a_commands"
  /\ apc' = "a_catch"
  /\ UNCHANGED << licenseAndStorageVars, secTestMode, registerCommand,
                  registerUriHandler, originalRegisterCommand,
                  originalRegisterUriHandler, handlerRegistered, commands,
                  uriHandlers >>

\* The catch block: console.error, then the error is thrown again.
ActivateCatch ==
  /\ apc = "a_catch"
  /\ apc' = "threw"
  /\ UNCHANGED << licenseAndStorageVars, secTestMode, registerCommand,
                  registerUriHandler, originalRegisterCommand,
                  originalRegisterUriHandler, handlerRegistered, commands,
                  uriHandlers >>

ActivationNext ==
  \/ ActivateEnter
  \/ \E testMode \in {"true", "false"} : ActivateSubstitute(testMode)
  \/ ActivateTestModeFails
  \/ \E commandId \in ExtensionCommands : OriginalRegistersCommand(commandId)
  \/ OriginalRegistersUriHandler
  \/ OriginalReturns
  \/ OriginalThrows
  \/ ActivateOwnHandler
  \/ ActivateOwnCommands
  \/ ActivateInfoFails
  \/ ActivateCatch

ActivationSpec == Init /\ [][ActivationNext]_vars

\* The returned function has finished, by returning or by throwing.
ActivationFinished == apc \in {"returned", "threw"}

\* C36: the registration functions of the host are substituted only for a
\* time: when the function returned by injectCheckoutCommands finishes,
\* whether originalActivate returned or threw, vscode.commands.registerCommand
\* and vscode.window.registerUriHandler are the functions of the host again.
C36_RegistrationRestored ==
  ActivationFinished
    => (registerCommand = "host" /\ registerUriHandler = "host")

\* What does hold: the functions are the host's again whenever the returned
\* function finishes without originalActivate having thrown.
C36_RestoredUnlessOriginalThrew ==
  [][/\ apc' = "returned"
          => (registerCommand' = "host" /\ registerUriHandler' = "host")
     /\ (apc' = "a_catch" /\ apc # "a_original")
          => (registerCommand' = "host" /\ registerUriHandler' = "host")]_vars

\* ------------------------------------------------ scripts/build.ts build
\* build() run in a project directory.  A directory is None (it does not
\* exist) or Some(the set of its files).
nonBuildVars ==
  << engine, session, fsVars, actVars, now, storeVars, vprocVars, gateVars,
     managerVars, histVars >>

SourceChoices ==
  {None, Some({"extension.ts"}), Some({"extension.ts", "util.ts"})}
BackupChoices == {None, Some({"old.ts"})}
BuildDirChoices == {None, Some({"stale.js"})}
IgnoreChoices == {"absent", "empty", "text"}
Compiled == {"extension.js"}

\* recordFiles(directory).
recordFiles(directory) == IF directory = None THEN {} ELSE directory[1]

\* cleanupNewFiles(directory, originalFiles): the files that were not in the
\* snapshot are unlinked.
cleanupNewFiles(directory, originalFiles) ==
  Some(directory[1] \cap originalFiles)

\* The function returned by updateVSCodeIgnore: the original content is
\* written back if there was any, the file is unlinked otherwise.
restoredVSCodeIgnore(originalContent) ==
  IF originalContent \in {"absent", "empty"} THEN "absent"
  ELSE originalContent

\* The restore of options.sourceDir from the backup: cleanupNewFiles if the
\* snapshot was taken, deleteDirectory(sourceDir), renameSync.
RestoreSourceDir ==
  /\ srcDir' = IF originalBackupFiles # None
               THEN cleanupNewFiles(backupDir, originalBackupFiles[1])
               ELSE backupDir
  /\ backupDir' = None

\* "if (restoreVSCodeIgnore) restoreVSCodeIgnore()" and the same for
\* restorePackageJsonMain.
RestoreManifests ==
  /\ vscodeignore' = IF restoreVSCodeIgnore # None
                     THEN restoredVSCodeIgnore(restoreVSCodeIgnore[1])
                     ELSE vscodeignore
  /\ packageJsonMain' = IF restorePackageJsonMain # None
                        THEN restorePackageJsonMain[1]
                        ELSE packageJsonMain

\* build() is called in a project: getBuildConfig has read package.json.
BuildStart(src, backup, out, ignore) ==
  /\ bpc = "idle"
  /\ srcDir' = src
  /\ backupDir' = backup
  /\ buildDir' = out
  /\ vscodeignore' = ignore
  /\ srcAtStart' = src
  /\ backupAtStart' = backup
  /\ ignoreAtStart' = ignore
  /\ bpc' = "compile"
  /\ UNCHANGED << nonBuildVars, buildError, packageJsonMain, originalBackupFiles,
                  restoreVSCodeIgnore, restorePackageJsonMain >>

\* Step 1: the build directory is deleted and tsc compiles into it.
BuildCompile ==
  /\ bpc = "compile"
  /\ buildDir' = Some(Compiled)
  /\ bpc' = "obfuscate"
  /\ UNCHANGED << nonBuildVars, buildError, srcDir, backupDir, vscodeignore,
                  packageJsonMain, originalBackupFiles, restoreVSCodeIgnore,
                  restorePackageJsonMain, srcAtStart, ignoreAtStart,
                  backupAtStart >>

\* Step 1 fails: tsc exits with an error, with or without output.
BuildCompileFails ==
  /\ bpc = "compile"
  /\ buildDir' \in {None, Some(Compiled)}
  /\ bpc' = "catch"
  /\ buildError' = "tsc"
  /\ UNCHANGED << nonBuildVars, srcDir, backupDir, vscodeignore,
                  packageJsonMain, originalBackupFiles, restoreVSCodeIgnore,
                  restorePackageJsonMain, srcAtStart, ignoreAtStart,
                  backupAtStart >>

\* Step 2: processFiles obfuscates every file of the build directory in place.
BuildObfuscate ==
  /\ bpc = "obfuscate"
  /\ bpc' = "backup"
  /\ UNCHANGED << nonBuildVars, buildError, srcDir, backupDir, buildDir, vscodeignore,
                  packageJsonMain, originalBackupFiles, restoreVSCodeIgnore,
                  restorePackageJsonMain, srcAtStart, ignoreAtStart,
                  backupAtStart >>

\* Step 2 fails: the obfuscator throws on a file.
BuildObfuscateFails ==
  /\ bpc = "obfuscate"
  /\ bpc' = "catch"
  /\ buildError' = "obfuscate"
  /\ UNCHANGED << nonBuildVars, srcDir, backupDir, buildDir, vscodeignore,
                  packageJsonMain, originalBackupFiles, restoreVSCodeIgnore,
                  restorePackageJsonMain, srcAtStart, ignoreAtStart,
                  backupAtStart >>

\* Step 3: a backup directory that exists is deleted, the source directory
\* is renamed to it and its files are recorded.
BuildBackup ==
  /\ bpc = "backup"
  /\ backupDir' = srcDir
  /\ srcDir' = None
  /\ originalBackupFiles' =
       IF srcDir # None THEN Some(recordFiles(srcDir)) ELSE None
  /\ bpc' = "copy"
  /\ UNCHANGED << nonBuildVars, buildError, buildDir, vscodeignore, packageJsonMain,
                  restoreVSCodeIgnore, restorePackageJsonMain, srcAtStart,
                  ignoreAtStart, backupAtStart >>

\* Step 3 fails: deleteDirectory or renameSync throws; the backup directory
\* found at the start is gone or still there, the source is in its place.
BuildBackupFails ==
  /\ bpc = "backup"
  /\ backupDir' \in {None, backupDir}
  /\ bpc' = "catch"
  /\ buildError' = "backup"
  /\ UNCHANGED << nonBuildVars, srcDir, buildDir, vscodeignore,
                  packageJsonMain, originalBackupFiles, restoreVSCodeIgnore,
                  restorePackageJsonMain, srcAtStart, ignoreAtStart,
                  backupAtStart >>

\* Step 4: the source directory is made anew from the build directory.
BuildCopy ==
  /\ bpc = "copy"
  /\ srcDir' = Some(recordFiles(buildDir))
  /\ bpc' = "ignore"
  /\ UNCHANGED << nonBuildVars, buildError, backupDir, buildDir, vscodeignore,
                  packageJsonMain, originalBackupFiles, restoreVSCodeIgnore,
                  restorePackageJsonMain, srcAtStart, ignoreAtStart,
                  backupAtStart >>

\* Step 4 fails: mkdirSync or copyFileSync throws after some of the files.
BuildCopyFails ==
  /\ bpc = "copy"
  /\ srcDir' \in {None, Some({}), Some(recordFiles(buildDir))}
  /\ bpc' = "catch"
  /\ buildError' = "copy"
  /\ UNCHANGED << nonBuildVars, backupDir, buildDir, vscodeignore,
                  packageJsonMain, originalBackupFiles, restoreVSCodeIgnore,
                  restorePackageJsonMain, srcAtStart, ignoreAtStart,
                  backupAtStart >>

\* updateVSCodeIgnore(): the file is rewritten, the restore function holds
\* the original content.
BuildUpdateIgnore ==
  /\ bpc = "ignore"
  /\ restoreVSCodeIgnore' = Some(vscodeignore)
  /\ vscodeignore' = "updated"
  /\ bpc' = "manifest"
  /\ UNCHANGED << nonBuildVars, buildError, srcDir, backupDir, buildDir, packageJsonMain,
                  originalBackupFiles, restorePackageJsonMain, srcAtStart,
                  ignoreAtStart, backupAtStart >>

\* updatePackageJsonMain(options).
BuildUpdatePackageJson ==
  /\ bpc = "manifest"
  /\ restorePackageJsonMain' = Some(packageJsonMain)
  /\ packageJsonMain' = "./src/extension.js"
  /\ bpc' = "package"
  /\ UNCHANGED << nonBuildVars, buildError, srcDir, backupDir, buildDir, vscodeignore,
                  originalBackupFiles, restoreVSCodeIgnore, srcAtStart,
                  ignoreAtStart, backupAtStart >>

\* Step 6: vsce package succeeds.
BuildPackage ==
  /\ bpc = "package"
  /\ bpc' = "restore"
  /\ UNCHANGED << nonBuildVars, buildError, srcDir, backupDir, buildDir, vscodeignore,
                  packageJsonMain, originalBackupFiles, restoreVSCodeIgnore,
                  restorePackageJsonMain, srcAtStart, ignoreAtStart,
                  backupAtStart >>

\* Step 6 fails: createVSIX rethrows the error of vsce.
BuildPackageFails ==
  /\ bpc = "package"
  /\ bpc' = "catch"
  /\ buildError' = "vsce"
  /\ UNCHANGED << nonBuildVars, srcDir, backupDir, buildDir, vscodeignore,
                  packageJsonMain, originalBackupFiles, restoreVSCodeIgnore,
                  restorePackageJsonMain, srcAtStart, ignoreAtStart,
                  backupAtStart >>

\* Step 7: the source directory is restored from the backup, then the two
\* manifests.  Without a backup directory renameSync throws after the source
\* directory has been deleted.
BuildRestore ==
  /\ bpc = "restore"
  /\ IF backupDir = None
     THEN /\ srcDir' = None
          /\ bpc' = "catch"
          /\ buildError' = "rename"
          /\ UNCHANGED << backupDir, vscodeignore, packageJsonMain >>
     ELSE /\ RestoreSourceDir
          /\ RestoreManifests
          /\ bpc' = "ended"
          /\ UNCHANGED buildError
  /\ UNCHANGED << nonBuildVars, buildDir, originalBackupFiles,
                  restoreVSCodeIgnore, restorePackageJsonMain, srcAtStart,
                  ignoreAtStart, backupAtStart >>

\* The catch block: the source directory is restored from the backup
\* directory if there is one, the manifests are restored, process.exit(1).
BuildCatch ==
  /\ bpc = "catch"
  /\ IF backupDir # None
     THEN RestoreSourceDir
     ELSE UNCHANGED << srcDir, backupDir >>
  /\ RestoreManifests
  /\ bpc' = "exited"
  /\ UNCHANGED << nonBuildVars, buildError, buildDir, originalBackupFiles,
                  restoreVSCodeIgnore, restorePackageJsonMain, srcAtStart,
                  ignoreAtStart, backupAtStart >>

BuildNext ==
  \/ \E src \in SourceChoices : \E backup \in BackupChoices :
       \E out \in BuildDirChoices : \E ignore \in IgnoreChoices :
         BuildStart(src, backup, out, ignore)
  \/ BuildCompile
  \/ BuildCompileFails
  \/ BuildObfuscate
  \/ BuildObfuscateFails
  \/ BuildBackup
  \/ BuildBackupFails
  \/ BuildCopy
  \/ BuildCopyFails
  \/ BuildUpdateIgnore
  \/ BuildUpdatePackageJson
  \/ BuildPackage
  \/ BuildPackageFails
  \/ BuildRestore
  \/ BuildCatch

BuildSpec == Init /\ [][BuildNext]_vars

\* build() has ended, by returning or through process.exit(1).
BuildEnded == bpc \in {"ended", "exited"}

\* What a reader of .vscodeignore gets: nothing from a file that is absent.
IgnoreContent(file) == IF file = "absent" THEN "empty" ELSE file

\* The project is as build() found it.
ProjectAsFound ==
  /\ srcDir = srcAtStart
  /\ IgnoreContent(vscodeignore) = IgnoreContent(ignoreAtStart)
  /\ packageJsonMain = "original"

\* C37: when build() ends, on success and on a failure at any step, the
\* source directory holds exactly the files it held before the build started
\* and package.json and .vscodeignore have their original content, also when
\* a backup directory left by an earlier run exists at the start.
C37_BuildLeavesProjectAsFound == BuildEnded => ProjectAsFound

\* What does hold: the same when at the start the source directory exists
\* and no backup directory does.
C37_AsFoundWithoutOldBackup ==
  (BuildEnded /\ backupAtStart = None /\ srcAtStart # None) => ProjectAsFound

====
